---------------------------- MODULE Spec2Model ----------------------------
(***************************************************************************)
(* A model of the orchestrator-workers engine of go-ai-agent               *)
(* (src/internal/agent/orchestrator.go): planning, dependency levelling,   *)
(* bounded-parallel execution of the subtasks of a level, aggregation      *)
(* under a mutex, and synthesis.                                           *)
(*                                                                         *)
(* Subtask ids are the integers 1..n; the id 0 stands for an id that no    *)
(* subtask of the plan carries (a dangling dependency).                    *)
(***************************************************************************)
EXTENDS Integers, Sequences, FiniteSets, TLC

\* Largest number of subtasks in a plan.
MaxTasks == 3

\* Largest number of iterations of groupByLevel's loop that are followed.
MaxRounds == 5

\* Largest MaxWorkers a caller configures (0 asks for the default).
MaxConfigWorkers == 2

\* Largest prompt-token count of one chat response.
MaxTokens == 2

\* orchestrator.go:92: MaxWorkers when the configured value is not positive.
DefaultMaxWorkers == 5

\* orchestrator.go:398: the longest excerpt of a dependency's output.
ExcerptMax == 200

\* The ID of a SubtaskResult built without one (Go's zero string).
NoID == -1

\* part_007:73: MaxLevels when the configured value is not positive.
DefaultMaxLevels == 3

\* part_007:76: ClusterSize when the configured value is not positive.
DefaultClusterSize == 5

\* The largest MaxLevels and ClusterSize a caller configures.
MaxLevelsCfg == 2
MaxClusterCfg == 2

\* The documents have the ids 1..MaxDocs; a batch has at most MaxBatch.
MaxDocs == 3
MaxBatch == 3

\* The most Adds on a store between two Clears.
MaxAdds == 2

\* The largest of the small limits handed to Search.
MaxLimit == 2

\* The limit of the SearchWithContext of a concurrent caller.
RaceLimit == 1

\* The most nodes handed to clusterNodes in a direct call, and the largest
\* ClusterSize of such a call.
MaxNodes == 4
MaxClusterSize == 3

\* memory.go:36: the empty document ID.
NoDocID == 0

\* A nil *TreeNode.
NoNode == 0

\* An empty embedding.
NoEmbedding == 0

\* orchestrator.go:482: the ID "no-llm" of the result of a worker without llm.
NoLLMID == -2

\* The most tool calls a response to a worker carries.
MaxToolCalls == 2

\* The query handed to RunWithHistory, as an input of a subtask (the input of
\* the k-th subtask of a parsed plan is k).
Query == 0

VARIABLES
    plan,         \* TaskPlan: [subtasks |-> Seq(Subtask), deps |-> [ids -> Seq(id)]]
    pc,           \* position of RunWithHistory / executeSubtasks / groupByLevel
    levels,       \* groupByLevel: levels built so far
    completed,    \* groupByLevel: ids marked completed
    config,       \* MaxWorkers of the config handed to NewOrchestratorAgent
    maxWorkers,   \* o.config.MaxWorkers after NewOrchestratorAgent
    workers,      \* names of the registered workers (o.workers)
    registry,     \* names of the tools of the registry (o.tools)
    ctxCancelled, \* the caller's context is cancelled
    crashed,      \* the runtime stopped the process (fatal error)
    lvl,          \* executeSubtasks: index of the level in flight (0: none yet)
    gpc,          \* per subtask goroutine: its position
    sem,          \* number of semaphore slots taken
    mu,           \* holder of the mutex (0: free)
    input,        \* per goroutine: the input buildTaskInput returned
    pending,      \* per goroutine: tool calls of the response still to run
    via,          \* ghost, per goroutine: what executeSubtask dispatched to
    res,          \* per goroutine: its SubtaskResult
    usage,        \* per goroutine: the Usage of its execution
    snap,         \* per goroutine: results and totalUsage as read under the mutex
    results,      \* executeSubtasks: results
    resultBy,     \* ghost: the goroutine that appended each entry of results
    resultMap,    \* executeSubtasks: resultMap
    execUsage,    \* executeSubtasks: totalUsage
    planSource,   \* createPlan: "parsed" or "fallback"
    steps,        \* RunWithHistory: allSteps
    runUsage,     \* RunWithHistory: totalUsage
    calls,        \* ghost: chat calls made, by stage
    ret,          \* what RunWithHistory returned
    worker,       \* WorkerAgent.Execute: the receiver [name, tools, llm, registry]
    winput,       \* WorkerAgent.Execute: the input
    wpc,          \* WorkerAgent.Execute: its position
    resp,         \* WorkerAgent.Execute: the chat response
    pos,          \* executeWithTools: index of the tool call the loop is at
    wlines,       \* executeWithTools: results
    effects,      \* ghost: the chat and tool calls Execute made, in order
    wret,         \* what WorkerAgent.Execute returned
    rconfig,      \* RAPTORStore: config after NewRAPTORStore
    base,         \* RAPTORStore: ids of the documents of the base store
    heap,         \* the TreeNodes allocated so far; a pointer is an index
    tree,         \* RAPTORStore: tree [root, levels]
    adds,         \* number of Adds since the store was new or cleared
    degraded,     \* ghost: something other than a non-empty Add whose
                  \* summarizer and embedder calls succeed has happened
    rret,         \* what the last call on the store returned
    lastCall,     \* ghost: the last call on the store [op, arg, ok]
    search,       \* the Search or SearchWithContext call in progress
    reader,       \* a concurrent caller's SearchWithContext, step by step
    adding,       \* a concurrent caller's Add between Lock and Unlock
    clustered,    \* what a direct call of clusterNodes returned
    faults        \* a batch and the outcomes of the summarizer's and the
                  \* embedder's calls, for an Add on a new store

cfgVars == <<config, maxWorkers, workers, registry>>
envVars == <<ctxCancelled, crashed>>
goVars  == <<lvl, gpc, sem, mu, input, pending, via, res, usage, snap>>
aggVars == <<results, resultBy, resultMap, execUsage>>
retVars == <<planSource, steps, runUsage, calls, ret>>
runVars == <<cfgVars, envVars, goVars, aggVars, retVars>>
workerVars == <<worker, winput, wpc, resp, pos, wlines, effects, wret>>

storeVars ==
    <<rconfig, base, heap, tree, adds, degraded, rret, lastCall, search, reader,
      adding, clustered, faults>>

vars == <<plan, pc, levels, completed, runVars, workerVars, storeVars>>

-----------------------------------------------------------------------------
(* Helpers on sequences and sets.                                          *)

Range(s) == {s[k] : k \in 1..Len(s)}

Min(S) == CHOOSE x \in S : \A y \in S : x <= y

RECURSIVE SeqOf(_)
\* The ascending sequence of a finite set of integers.
SeqOf(S) == IF S = {} THEN <<>> ELSE <<Min(S)>> \o SeqOf(S \ {Min(S)})

\* The ids of a sequence of subtasks, in order.
IdsOf(tasks) == [k \in 1..Len(tasks) |-> tasks[k].id]

-----------------------------------------------------------------------------
(* Usage, strings and results.                                             *)

ZeroUsage == [prompt |-> 0, completion |-> 0, total |-> 0]

\* orchestrator.go:594-600.
addUsage(a, b) ==
    [prompt     |-> a.prompt + b.prompt,
     completion |-> a.completion + b.completion,
     total      |-> a.total + b.total]

\* The usage of a chat response with t prompt tokens.
ResponseUsage(t) == [prompt |-> t, completion |-> 1, total |-> t + 1]

\* A string is kept as its origin (0: none, k: the response to subtask k),
\* its length, whether truncate cut it, and its lines when tools wrote it.
EmptyString == [src |-> 0, len |-> 0, cut |-> FALSE, lines |-> <<>>]

\* The content of a chat response for subtask k, l characters long.
Content(k, l) == [src |-> k, len |-> l, cut |-> FALSE, lines |-> <<>>]

\* Mutant: nothing is cut.
truncate_None(s, maxLen) == s

\* reflexion.go:359-364: strings longer than maxLen keep maxLen-3 characters
\* and get "..." appended.
truncate(s, maxLen) ==
    IF s.len <= maxLen THEN s
    ELSE [s EXCEPT !.len = (maxLen - 3) + 3, !.cut = TRUE]

\* The length of the chat response to subtask k: the first fits an excerpt,
\* the others do not.
ContentLen(k) == ExcerptMax - 1 + k

\* part_009:41-48: a step of the response.
Step(type, name, output) == [type |-> type, name |-> name, output |-> output]

\* orchestrator.go:78-84.
SubtaskResult(id, success, output, error) ==
    [id |-> id, success |-> success, output |-> output, error |-> error]

-----------------------------------------------------------------------------
(* groupByLevel (orchestrator.go:323-383).                                 *)

\* plan.Dependencies[task.ID]: a missing key reads as the empty list.
DepsOf(p, id) == IF id \in DOMAIN p.deps THEN p.deps[id] ELSE <<>>

\* Mutant: one completed dependency is enough.
AllDepsCompleted_Any(p, done, task) ==
    \/ Len(DepsOf(p, task.id)) = 0
    \/ \E k \in 1..Len(DepsOf(p, task.id)) : DepsOf(p, task.id)[k] \in done

\* Mutant: a dependency that is no subtask of the plan counts as completed.
AllDepsCompleted_SkipMissing(p, done, task) ==
    \A k \in 1..Len(DepsOf(p, task.id)) :
        \/ DepsOf(p, task.id)[k] \in done
        \/ DepsOf(p, task.id)[k] \notin Range(IdsOf(p.subtasks))

\* orchestrator.go:352-359: every dependency of the task is marked completed.
AllDepsCompleted(p, done, task) ==
    \A k \in 1..Len(DepsOf(p, task.id)) : DepsOf(p, task.id)[k] \in done

\* orchestrator.go:346-364: the not yet completed subtasks whose dependencies
\* are all completed, in plan order.
Qualifying(p, done) ==
    SelectSeq(p.subtasks, LAMBDA t : t.id \notin done /\ AllDepsCompleted(p, done, t))

\* Mutant: the flush takes only the first subtask not yet completed.
FlushRemaining_First(p, done) ==
    SubSeq(SelectSeq(p.subtasks, LAMBDA t : t.id \notin done), 1, 1)

\* orchestrator.go:366-373: every subtask not yet completed, in plan order.
FlushRemaining(p, done) ==
    SelectSeq(p.subtasks, LAMBDA t : t.id \notin done)

\* orchestrator.go:344-373: the level one iteration of the loop builds.
CurrentLevel(p, done) ==
    IF Len(Qualifying(p, done)) = 0 THEN FlushRemaining(p, done)
    ELSE Qualifying(p, done)

\* orchestrator.go:324-326: no subtasks, no levels.
GroupEmpty ==
    /\ pc = "group"
    /\ Len(plan.subtasks) = 0
    /\ levels' = <<>>
    /\ pc' = "exec"
    /\ UNCHANGED <<storeVars, workerVars, plan, completed, runVars>>

\* orchestrator.go:329-331: no dependencies, one level holding every subtask.
GroupSimple ==
    /\ pc = "group"
    /\ Len(plan.subtasks) > 0
    /\ DOMAIN plan.deps = {}
    /\ levels' = <<plan.subtasks>>
    /\ pc' = "exec"
    /\ UNCHANGED <<storeVars, workerVars, plan, completed, runVars>>

\* orchestrator.go:343-380: one iteration of the levelling loop.
GroupLoop ==
    /\ pc = "group"
    /\ Len(plan.subtasks) > 0
    /\ DOMAIN plan.deps # {}
    /\ Cardinality(completed) < Len(plan.subtasks)
    /\ Len(levels) < MaxRounds
    /\ LET cur == CurrentLevel(plan, completed) IN
         /\ completed' = completed \cup Range(IdsOf(cur))
         /\ levels' = Append(levels, cur)
    /\ UNCHANGED <<storeVars, workerVars, plan, pc, runVars>>

\* orchestrator.go:343,382: the loop condition fails, the levels are returned.
GroupReturn ==
    /\ pc = "group"
    /\ Len(plan.subtasks) > 0
    /\ DOMAIN plan.deps # {}
    /\ Cardinality(completed) >= Len(plan.subtasks)
    /\ pc' = "exec"
    /\ UNCHANGED <<storeVars, workerVars, plan, levels, completed, runVars>>

RECURSIVE LevelLoop(_, _, _)
\* orchestrator.go:343-382 as a function of the plan (plans with unique ids).
LevelLoop(p, done, lv) ==
    IF Cardinality(done) < Len(p.subtasks)
    THEN LET cur == CurrentLevel(p, done)
         IN  LevelLoop(p, done \cup Range(IdsOf(cur)), Append(lv, cur))
    ELSE lv

\* orchestrator.go:323-383.
groupByLevel(p) ==
    IF Len(p.subtasks) = 0 THEN <<>>
    ELSE IF DOMAIN p.deps = {} THEN <<p.subtasks>>
    ELSE LevelLoop(p, {}, <<>>)

-----------------------------------------------------------------------------
(* Plans.                                                                  *)

\* orchestrator.go:70-75: worker_type by position (general, calculator, writer).
WorkerTypeAt(k) ==
    IF k % 3 = 1 THEN "general" ELSE IF k % 3 = 2 THEN "calculator" ELSE "writer"

\* The subtasks 1..n, in order, with unique ids.
SubtasksOf(n) == [k \in 1..n |-> [id |-> k, wtype |-> WorkerTypeAt(k), input |-> k]]

\* Dependency lists over the ids 1..n and the dangling id.
DepLists(n) == {SeqOf(S) : S \in {T \in SUBSET (0..n) : Cardinality(T) < MaxTasks}}

\* orchestrator.go:260-261: every plan of n subtasks the response may parse
\* to: any id of 1..n under each subtask, any set of keys, any list under
\* each key.
IsAnyPlan(p, n) ==
    \E ids \in [1..n -> 1..n] : \E K \in SUBSET (1..n) : \E d \in [K -> DepLists(n)] :
        p = [subtasks |-> [k \in 1..n |->
                             [id |-> ids[k], wtype |-> WorkerTypeAt(k), input |-> k]],
             deps |-> d]

\* Every plan of n subtasks with unique ids: any set of keys, any list under
\* each key.
IsLevelPlan(p, n) ==
    \E K \in SUBSET (1..n) : \E d \in [K -> DepLists(n)] :
        p = [subtasks |-> SubtasksOf(n), deps |-> d]

-----------------------------------------------------------------------------
(* Configuration, workers and dispatch.                                    *)

\* orchestrator.go:91-93.
NewMaxWorkers(m) == IF m <= 0 THEN DefaultMaxWorkers ELSE m

\* The workers a caller registers (orchestrator.go:603-622).
WorkerNames == {"general", "calculator"}

\* The tools a registry holds.
ToolNames == {"calculator"}

\* orchestrator.go:620: the tools a worker names.
WorkerTools(w) == IF w = "calculator" THEN {"calculator"} ELSE {}

\* Mutant: no fallback to the general worker.
Dispatch_NoGeneral(ws, task) == IF task.wtype \in ws THEN task.wtype ELSE "default"

\* orchestrator.go:407-417: the worker of the task's type, else the general
\* worker, else the default executor.
Dispatch(ws, task) ==
    IF task.wtype \in ws THEN task.wtype
    ELSE IF "general" \in ws THEN "general"
    ELSE "default"

\* orchestrator.go:494-516: the worker's tools that the registry holds.
FilteredTools(w, reg) == WorkerTools(w) \cap reg

\* orchestrator.go:494,514: the execution goes through executeWithTools.
UsesTools(ws, reg, task) ==
    /\ Dispatch(ws, task) # "default"
    /\ FilteredTools(Dispatch(ws, task), reg) # {}

\* orchestrator.go:429-440 against 528-540 and 553-590: only the default
\* executor puts the task's id into its result.
ResultID(ws, task) == IF Dispatch(ws, task) = "default" THEN task.id ELSE NoID

\* The tool calls a response may carry.
ToolCallLists == {<<"calculator">>, <<"web_search">>}

\* orchestrator.go:562-572: one line per call whose tool the registry holds;
\* ok[i] tells whether the i-th call returned without error.
ToolLines(reg, tcs, ok) ==
    LET kept == SelectSeq([i \in 1..Len(tcs) |-> [tool |-> tcs[i], ok |-> ok[i]]],
                          LAMBDA c : c.tool \in reg)
    IN  kept

\* orchestrator.go:575: the joined lines (a line counts as one character).
ToolOutput(k, lines) == [src |-> k, len |-> Len(lines), cut |-> FALSE, lines |-> lines]

-----------------------------------------------------------------------------
(* buildTaskInput (orchestrator.go:386-403).                               *)

\* orchestrator.go:398: "- depID: excerpt".
ContextLine(depID, r) == [dep |-> depID, text |-> truncate(r.output, ExcerptMax)]

RECURSIVE ContextLines(_, _)
\* orchestrator.go:396-400: a line per dependency found in the map with
\* Success set, in the order of the dependency list.
ContextLines(taskDeps, rm) ==
    IF taskDeps = <<>> THEN <<>>
    ELSE LET depID == Head(taskDeps)
             rest  == ContextLines(Tail(taskDeps), rm)
         IN  IF depID \in DOMAIN rm /\ rm[depID].success
             THEN <<ContextLine(depID, rm[depID])>> \o rest
             ELSE rest

\* orchestrator.go:386-403: the task's own input, followed by the context
\* header and lines when the task has dependencies.
buildTaskInput(p, task, rm) ==
    IF Len(DepsOf(p, task.id)) = 0
    THEN [own |-> task.input, header |-> FALSE, context |-> <<>>]
    ELSE [own |-> task.input, header |-> TRUE,
          context |-> ContextLines(DepsOf(p, task.id), rm)]

\* The input of a goroutine that has not built one.
NoInput == [own |-> NoID, header |-> FALSE, context |-> <<>>]

\* A map without the entries under the ids of M.
Without(rm, M) == [id \in DOMAIN rm \ M |-> rm[id]]

-----------------------------------------------------------------------------
(* State before a run, and before executeSubtasks.                         *)

NoPlan == [subtasks |-> <<>>, deps |-> <<>>]

NoResult == SubtaskResult(NoID, FALSE, EmptyString, "")

NoSnap == [results |-> <<>>, usage |-> ZeroUsage]

\* The outcome of every chat call made so far ("none": not made).
NoCalls ==
    [plan |-> "none", sub |-> <<>>, synth |-> "none",
     planUsage |-> ZeroUsage, synthUsage |-> ZeroUsage]

\* The chat calls after a planning call that returned a plan of n subtasks
\* and used MaxTokens prompt tokens.
PlannedCalls(n) ==
    [plan |-> "ok", sub |-> [k \in 1..n |-> "none"], synth |-> "none",
     planUsage |-> ResponseUsage(MaxTokens), synthUsage |-> ZeroUsage]

NoReturn == [kind |-> "none", err |-> ""]

\* The goroutine state of a plan of n subtasks before any goroutine starts.
GoIdle(n) ==
    /\ lvl = 0
    /\ gpc = [k \in 1..n |-> "idle"]
    /\ sem = 0
    /\ mu = 0
    /\ input = [k \in 1..n |-> NoInput]
    /\ pending = [k \in 1..n |-> <<>>]
    /\ via = [k \in 1..n |-> "none"]
    /\ res = [k \in 1..n |-> NoResult]
    /\ usage = [k \in 1..n |-> ZeroUsage]
    /\ snap = [k \in 1..n |-> NoSnap]

\* orchestrator.go:283-286: executeSubtasks' locals.
AggIdle ==
    /\ results = <<>>
    /\ resultBy = <<>>
    /\ resultMap = <<>>
    /\ execUsage = ZeroUsage

EnvIdle ==
    /\ ctxCancelled = FALSE
    /\ crashed = FALSE

\* part_007:72-77: NewRAPTORStore replaces values that are not positive.
NewRAPTORConfig(ml, cs) ==
    [maxLevels   |-> IF ml <= 0 THEN DefaultMaxLevels ELSE ml,
     clusterSize |-> IF cs <= 0 THEN DefaultClusterSize ELSE cs]

\* part_007:90-92: the tree of a new store.
NewTree == [root |-> NoNode, levels |-> <<>>]

\* Ghost: a call on the store, with its argument and whether every
\* summarizer and embedder call it made succeeded.
Call(op, arg, ok) == [op |-> op, arg |-> arg, ok |-> ok]

NoCall == Call("none", <<>>, TRUE)

\* No Search or SearchWithContext call is in progress.
NoSearch == [op |-> "none"]

\* clusterNodes has not been called directly.
NoClusters == [called |-> FALSE]

\* No Add with given outcomes of the summarizer and the embedder is studied.
NoFaults == [called |-> FALSE]

\* The concurrent caller is in no SearchWithContext.
NoReader == [pc |-> "idle"]

\* No Add is between Lock and Unlock.
NoAdd == [locked |-> FALSE, docs |-> <<>>, leafNodes |-> <<>>]

\* part_007:98, 410, 449: mu.Lock proceeds when no Search holds the read lock
\* and no Add the write lock, in a process that has not died.
MayLock == search = NoSearch /\ adding = NoAdd /\ reader.pc # "crashed"

\* A new store with the default config.
StoreIdle ==
    /\ rconfig = NewRAPTORConfig(0, 0)
    /\ base = {}
    /\ heap = <<>>
    /\ tree = NewTree
    /\ adds = 0
    /\ degraded = FALSE
    /\ rret = ""
    /\ lastCall = NoCall
    /\ search = NoSearch
    /\ reader = NoReader
    /\ adding = NoAdd
    /\ clustered = NoClusters
    /\ faults = NoFaults

\* orchestrator.go:48-55: a worker, with the tools it names, whether llm is
\* set, and the names of the tools of its registry (hasRegistry: it is set).
WorkerAgent(name, llm, hasRegistry, reg) ==
    [name |-> name, tools |-> WorkerTools(name), llm |-> llm,
     hasRegistry |-> hasRegistry, registry |-> reg]

\* The response before any chat call.
NoResponse == [err |-> FALSE, toolCalls |-> <<>>, usage |-> ZeroUsage]

\* No call of WorkerAgent.Execute is in progress.
WorkerIdle ==
    /\ worker = WorkerAgent("general", FALSE, FALSE, {})
    /\ winput = 0
    /\ wpc = "idle"
    /\ resp = NoResponse
    /\ pos = 0
    /\ wlines = <<>>
    /\ effects = <<>>
    /\ wret = [result |-> NoResult, usage |-> ZeroUsage]

\* The state when executeSubtasks calls groupByLevel on a plan with unique
\* ids, any keys in the dependency map and any list under each key.
InitLevels ==
    /\ \E n \in 0..MaxTasks :
         IsLevelPlan(plan, n) /\ GoIdle(n) /\ calls = PlannedCalls(n)
    /\ pc = "group"
    /\ levels = <<>>
    /\ completed = {}
    /\ config = 0
    /\ maxWorkers = NewMaxWorkers(0)
    /\ workers = {}
    /\ registry = {}
    /\ EnvIdle
    /\ StoreIdle
    /\ WorkerIdle
    /\ AggIdle
    /\ planSource = "parsed"
    /\ steps = <<Step("planning", NoID, EmptyString)>>
    /\ runUsage = ResponseUsage(MaxTokens)
    /\ ret = NoReturn

NextLevels == GroupEmpty \/ GroupSimple \/ GroupLoop \/ GroupReturn

\* groupByLevel applied to every plan of LevelPlans.
SpecLevels == InitLevels /\ [][NextLevels]_vars

\* The state when executeSubtasks calls groupByLevel on a plan as the
\* planner's response may spell it: any id under each subtask, the same id
\* twice included.
InitGroup ==
    /\ \E n \in 0..MaxTasks :
         IsAnyPlan(plan, n) /\ GoIdle(n) /\ calls = PlannedCalls(n)
    /\ pc = "group"
    /\ levels = <<>>
    /\ completed = {}
    /\ config = 0
    /\ maxWorkers = NewMaxWorkers(0)
    /\ workers = {}
    /\ registry = {}
    /\ EnvIdle
    /\ StoreIdle
    /\ WorkerIdle
    /\ AggIdle
    /\ planSource = "parsed"
    /\ steps = <<Step("planning", NoID, EmptyString)>>
    /\ runUsage = ResponseUsage(MaxTokens)
    /\ ret = NoReturn

NextGroup == GroupEmpty \/ GroupSimple \/ GroupLoop \/ GroupReturn

\* groupByLevel applied to every such plan; the goroutine that runs it keeps
\* running.
SpecGroup == InitGroup /\ [][NextGroup]_vars /\ WF_vars(NextGroup)

-----------------------------------------------------------------------------
(* RunWithHistory (orchestrator.go:182-243): planning.                     *)

\* Mutant: the fallback is a plan without subtasks.
FallbackPlan_Empty == [subtasks |-> <<>>, deps |-> <<>>]

\* orchestrator.go:265-273: the plan used when the response does not parse.
FallbackPlan ==
    [subtasks |-> <<[id |-> 1, wtype |-> "general", input |-> Query]>>, deps |-> <<>>]

\* The dependencies a parsed plan gives subtask i: earlier subtasks, or, for
\* the second subtask, the dangling id.
RunDepSets(i) == (SUBSET (1..(i - 1))) \cup (IF i = 2 THEN {{0}} ELSE {})

\* The parsed plan of n subtasks in which subtask i depends on D[i]: a key
\* for every subtask with dependencies.
RunPlan(n, D) ==
    [subtasks |-> SubtasksOf(n),
     deps |-> [i \in {j \in 1..n : D[j] # {}} |-> SeqOf(D[i])]]

\* orchestrator.go:191-194,249-258: the planning call fails, the run returns
\* the error.
PlanFail ==
    /\ pc = "start"
    /\ calls' = [calls EXCEPT !.plan = "error"]
    /\ ret' = [kind |-> "error", err |-> "planning failed"]
    /\ pc' = "done"
    /\ UNCHANGED <<storeVars, workerVars,
                   plan, levels, completed, cfgVars, envVars, goVars, aggVars,
                   planSource, steps, runUsage>>

\* orchestrator.go:191-200,275-279: the planning call returned; the plan p is
\* in use, its usage and the planning step are recorded.
PlanReady(p, source, t) ==
    /\ pc = "start"
    /\ ~ctxCancelled
    /\ plan' = p
    /\ planSource' = source
    /\ calls' = [PlannedCalls(Len(p.subtasks)) EXCEPT !.planUsage = ResponseUsage(t)]
    /\ runUsage' = addUsage(runUsage, ResponseUsage(t))
    /\ steps' = Append(steps, Step("planning", NoID, EmptyString))
    /\ gpc' = [k \in 1..Len(p.subtasks) |-> "idle"]
    /\ input' = [k \in 1..Len(p.subtasks) |-> NoInput]
    /\ pending' = [k \in 1..Len(p.subtasks) |-> <<>>]
    /\ via' = [k \in 1..Len(p.subtasks) |-> "none"]
    /\ res' = [k \in 1..Len(p.subtasks) |-> NoResult]
    /\ usage' = [k \in 1..Len(p.subtasks) |-> ZeroUsage]
    /\ snap' = [k \in 1..Len(p.subtasks) |-> NoSnap]
    /\ pc' = "group"
    /\ UNCHANGED <<storeVars, workerVars,
                   levels, completed, cfgVars, envVars, lvl, sem, mu, aggVars, ret>>

\* orchestrator.go:260-261: the response parses as a plan.
PlanParsed ==
    /\ pc = "start"
    /\ \E n \in 0..MaxTasks, t \in {MaxTokens} :
         \E D \in [1..n -> SUBSET (0..n)] :
             /\ \A i \in 1..n : D[i] \in RunDepSets(i)
             /\ PlanReady(RunPlan(n, D), "parsed", t)

\* orchestrator.go:261-273: the response does not parse.
PlanFallback ==
    \E t \in 1..MaxTokens : PlanReady(FallbackPlan, "fallback", t)

-----------------------------------------------------------------------------
(* executeSubtasks (orchestrator.go:282-320).                              *)

\* The goroutines (by position in the plan) of the subtasks of level l.
LevelIndices(l) ==
    {k \in 1..Len(plan.subtasks) : plan.subtasks[k] \in Range(levels[l])}

\* Mutant: wg.Wait returns at once.
LevelDone_NoWait(l) == TRUE

\* Mutant: wg.Wait returns only when every subtask of the level succeeded.
LevelDone_AllSucceed(l) ==
    IF l = 0 THEN TRUE
    ELSE \A k \in LevelIndices(l) : gpc[k] = "done" /\ res[k].success

\* orchestrator.go:316: wg.Wait returns when every goroutine of the level has
\* run its deferred wg.Done.
LevelDone(l) ==
    IF l = 0 THEN TRUE ELSE \A k \in LevelIndices(l) : gpc[k] = "done"

\* orchestrator.go:291-313,316: the previous level's wg.Wait returns, the next
\* level gets a fresh semaphore and one goroutine per subtask.
StartLevel ==
    /\ pc = "exec"
    /\ ~crashed
    /\ lvl < Len(levels)
    /\ LevelDone(lvl)
    /\ lvl' = lvl + 1
    /\ gpc' = [k \in DOMAIN gpc |->
                 IF k \in LevelIndices(lvl + 1) THEN "wait" ELSE gpc[k]]
    /\ sem' = 0
    /\ UNCHANGED <<storeVars, workerVars,
                   plan, pc, levels, completed, cfgVars, envVars, mu, input,
                   pending, res, usage, snap, aggVars, retVars, via>>

\* Mutant: a slot is always granted.
SlotFree_Unbounded == TRUE

\* orchestrator.go:294,300: a send on the semaphore proceeds while the buffer
\* has room.
SlotFree == sem < maxWorkers

\* orchestrator.go:300: the goroutine takes a slot.
Acquire(k) ==
    /\ pc = "exec"
    /\ ~crashed
    /\ gpc[k] = "wait"
    /\ SlotFree
    /\ sem' = sem + 1
    /\ gpc' = [gpc EXCEPT ![k] = "acq"]
    /\ UNCHANGED <<storeVars, workerVars,
                   plan, pc, levels, completed, cfgVars, envVars, lvl, mu, input,
                   pending, res, usage, snap, aggVars, retVars, via>>

\* buildTaskInput reads resultMap without holding mu (orchestrator.go:304,
\* 396-397): the read of goroutine k overlaps a write when another goroutine
\* is between mu.Lock and mu.Unlock.
Racy(k) ==
    /\ Len(DepsOf(plan, plan.subtasks[k].id)) > 0
    /\ \E j \in DOMAIN gpc \ {k} : gpc[j] = "locked"

\* orchestrator.go:304: the input is built from the map as it is.
BuildInput(k) ==
    /\ pc = "exec"
    /\ ~crashed
    /\ gpc[k] = "acq"
    /\ input' = [input EXCEPT ![k] = buildTaskInput(plan, plan.subtasks[k], resultMap)]
    /\ gpc' = [gpc EXCEPT ![k] = "built"]
    /\ UNCHANGED <<storeVars, workerVars,
                   plan, pc, levels, completed, cfgVars, envVars, lvl, sem, mu,
                   pending, res, usage, snap, aggVars, retVars, via>>

\* orchestrator.go:304 under a concurrent write: the lookup of some recorded
\* dependencies misses.
BuildInputMiss(k) ==
    /\ pc = "exec"
    /\ ~crashed
    /\ gpc[k] = "acq"
    /\ Racy(k)
    /\ \E M \in SUBSET (Range(DepsOf(plan, plan.subtasks[k].id)) \cap DOMAIN resultMap) :
         /\ M # {}
         /\ input' = [input EXCEPT ![k] =
                        buildTaskInput(plan, plan.subtasks[k], Without(resultMap, M))]
    /\ gpc' = [gpc EXCEPT ![k] = "built"]
    /\ UNCHANGED <<storeVars, workerVars,
                   plan, pc, levels, completed, cfgVars, envVars, lvl, sem, mu,
                   pending, res, usage, snap, aggVars, retVars, via>>

\* orchestrator.go:304 under a concurrent write: the runtime detects it and
\* stops the process ("concurrent map read and map write").
BuildInputFatal(k) ==
    /\ pc = "exec"
    /\ ~crashed
    /\ gpc[k] = "acq"
    /\ Racy(k)
    /\ crashed' = TRUE
    /\ UNCHANGED <<storeVars, workerVars, plan, pc, levels, completed, cfgVars, ctxCancelled,
                   goVars, aggVars, retVars>>

\* Mutant: a chat call under a cancelled context fails like any other.
ChatError_Plain == "chat failed"

\* openai.go: Chat hands ctx to the request, so a call returning under a
\* cancelled context returns the context's error.
ChatError == IF ctxCancelled THEN "context canceled" ELSE "chat failed"

\* orchestrator.go:428-434,524-529,553-558: the chat call of the execution
\* returns an error.
ChatFail(k) ==
    /\ pc = "exec"
    /\ ~crashed
    /\ gpc[k] = "built"
    /\ res' = [res EXCEPT ![k] =
                 SubtaskResult(ResultID(workers, plan.subtasks[k]), FALSE,
                               EmptyString, ChatError)]
    /\ usage' = [usage EXCEPT ![k] = ZeroUsage]
    /\ calls' = [calls EXCEPT !.sub[k] = "error"]
    /\ via' = [via EXCEPT ![k] = Dispatch(workers, plan.subtasks[k])]
    /\ gpc' = [gpc EXCEPT ![k] = "ret"]
    /\ UNCHANGED <<storeVars, workerVars,
                   plan, pc, levels, completed, cfgVars, envVars, lvl, sem, mu,
                   input, pending, snap, aggVars, planSource, steps, runUsage, ret>>

\* orchestrator.go:436-444,531-541,581-590: the chat call returns content.
ChatOk(k) ==
    /\ pc = "exec"
    /\ ~crashed
    /\ gpc[k] = "built"
    /\ ~ctxCancelled
    /\ \E t \in 1..MaxTokens :
         /\ res' = [res EXCEPT ![k] =
                      SubtaskResult(ResultID(workers, plan.subtasks[k]), TRUE,
                                    Content(k, ContentLen(k)), "")]
         /\ usage' = [usage EXCEPT ![k] = ResponseUsage(t)]
    /\ calls' = [calls EXCEPT !.sub[k] = "ok"]
    /\ via' = [via EXCEPT ![k] = Dispatch(workers, plan.subtasks[k])]
    /\ gpc' = [gpc EXCEPT ![k] = "ret"]
    /\ UNCHANGED <<storeVars, workerVars,
                   plan, pc, levels, completed, cfgVars, envVars, lvl, sem, mu,
                   input, pending, snap, aggVars, planSource, steps, runUsage, ret>>

\* orchestrator.go:546-561: the chat call of a worker with tools returns tool
\* calls.
ChatToolCalls(k) ==
    /\ pc = "exec"
    /\ ~crashed
    /\ gpc[k] = "built"
    /\ ~ctxCancelled
    /\ UsesTools(workers, registry, plan.subtasks[k])
    /\ \E t \in 1..MaxTokens, tcs \in ToolCallLists :
         /\ pending' = [pending EXCEPT ![k] = tcs]
         /\ usage' = [usage EXCEPT ![k] = ResponseUsage(t)]
    /\ calls' = [calls EXCEPT !.sub[k] = "tools"]
    /\ via' = [via EXCEPT ![k] = Dispatch(workers, plan.subtasks[k])]
    /\ gpc' = [gpc EXCEPT ![k] = "tools"]
    /\ UNCHANGED <<storeVars, workerVars,
                   plan, pc, levels, completed, cfgVars, envVars, lvl, sem, mu,
                   input, res, snap, aggVars, planSource, steps, runUsage, ret>>

\* orchestrator.go:561-580: the tool calls run, whatever the context, and the
\* result is a success holding their lines.
RunTools(k) ==
    /\ pc = "exec"
    /\ ~crashed
    /\ gpc[k] = "tools"
    /\ \E ok \in [1..Len(pending[k]) -> BOOLEAN] :
         res' = [res EXCEPT ![k] =
                   SubtaskResult(NoID, TRUE,
                                 ToolOutput(k, ToolLines(registry, pending[k], ok)), "")]
    /\ pending' = [pending EXCEPT ![k] = <<>>]
    /\ gpc' = [gpc EXCEPT ![k] = "ret"]
    /\ UNCHANGED <<storeVars, workerVars,
                   plan, pc, levels, completed, cfgVars, envVars, lvl, sem, mu,
                   input, usage, snap, aggVars, retVars, via>>

\* Mutant: mu.Lock never blocks.
MutexFree_Always == TRUE

\* orchestrator.go:308: mu.Lock proceeds when no goroutine holds mu.
MutexFree == mu = 0

\* orchestrator.go:308-311: the goroutine takes mu and reads results and
\* totalUsage.
Lock(k) ==
    /\ pc = "exec"
    /\ ~crashed
    /\ gpc[k] = "ret"
    /\ MutexFree
    /\ mu' = k
    /\ snap' = [snap EXCEPT ![k] = [results |-> results, usage |-> execUsage]]
    /\ gpc' = [gpc EXCEPT ![k] = "locked"]
    /\ UNCHANGED <<storeVars, workerVars,
                   plan, pc, levels, completed, cfgVars, envVars, lvl, sem, input,
                   pending, res, usage, aggVars, retVars, via>>

\* orchestrator.go:309-312 and the deferred calls of 298-301: the goroutine
\* writes results, resultMap and totalUsage, unlocks, frees its slot and
\* signals the wait group.
Record(k) ==
    /\ pc = "exec"
    /\ ~crashed
    /\ gpc[k] = "locked"
    /\ results' = Append(snap[k].results, res[k])
    /\ resultBy' = Append(resultBy, k)
    /\ resultMap' = [id \in DOMAIN resultMap \cup {plan.subtasks[k].id} |->
                       IF id = plan.subtasks[k].id THEN res[k] ELSE resultMap[id]]
    /\ execUsage' = addUsage(snap[k].usage, usage[k])
    /\ mu' = 0
    /\ sem' = sem - 1
    /\ snap' = [snap EXCEPT ![k] = NoSnap]
    /\ gpc' = [gpc EXCEPT ![k] = "done"]
    /\ UNCHANGED <<storeVars, workerVars,
                   plan, pc, levels, completed, cfgVars, envVars, lvl, input,
                   pending, res, usage, retVars, via>>

-----------------------------------------------------------------------------
(* RunWithHistory: after executeSubtasks.                                  *)

\* Mutant: the steps of the results in reverse order.
ResultSteps_Reversed(rs) ==
    [i \in 1..Len(rs) |->
        Step(IF rs[Len(rs) + 1 - i].success THEN "observation" ELSE "error",
             rs[Len(rs) + 1 - i].id, rs[Len(rs) + 1 - i].output)]

\* orchestrator.go:210-220: an observation or error step per result.
ResultSteps(rs) ==
    [i \in 1..Len(rs) |->
        Step(IF rs[i].success THEN "observation" ELSE "error", rs[i].id, rs[i].output)]

\* orchestrator.go:316-319,207-220: the last wg.Wait returns, executeSubtasks
\* returns, its usage is added and its results become steps.
ExecReturn ==
    /\ pc = "exec"
    /\ ~crashed
    /\ lvl = Len(levels)
    /\ LevelDone(lvl)
    /\ runUsage' = addUsage(runUsage, execUsage)
    /\ steps' = steps \o ResultSteps(results)
    /\ pc' = "synth"
    /\ UNCHANGED <<storeVars, workerVars,
                   plan, levels, completed, cfgVars, envVars, goVars, aggVars,
                   planSource, calls, ret>>

\* Mutant: a failed synthesis call still yields a response.
SynthFail_Swallow ==
    /\ pc = "synth"
    /\ calls' = [calls EXCEPT !.synth = "error"]
    /\ ret' = [kind |-> "response", err |-> ""]
    /\ pc' = "done"
    /\ UNCHANGED <<storeVars, workerVars,
                   plan, levels, completed, cfgVars, envVars, goVars, aggVars,
                   planSource, steps, runUsage>>

\* orchestrator.go:227-230,467-469: the synthesis call fails, the run returns
\* the error.
SynthFail ==
    /\ pc = "synth"
    /\ calls' = [calls EXCEPT !.synth = "error"]
    /\ ret' = [kind |-> "error", err |-> "synthesis failed"]
    /\ pc' = "done"
    /\ UNCHANGED <<storeVars, workerVars,
                   plan, levels, completed, cfgVars, envVars, goVars, aggVars,
                   planSource, steps, runUsage>>

\* orchestrator.go:231-242: the synthesis call returned, the response is
\* returned.
SynthOk ==
    /\ pc = "synth"
    /\ ~ctxCancelled
    /\ \E t \in 1..MaxTokens :
         /\ runUsage' = addUsage(runUsage, ResponseUsage(t))
         /\ calls' = [calls EXCEPT !.synth = "ok", !.synthUsage = ResponseUsage(t)]
    /\ steps' = Append(steps, Step("synthesis", NoID, EmptyString))
    /\ ret' = [kind |-> "response", err |-> ""]
    /\ pc' = "done"
    /\ UNCHANGED <<storeVars, workerVars,
                   plan, levels, completed, cfgVars, envVars, goVars, aggVars,
                   planSource>>

\* The caller cancels the context.
Cancel ==
    /\ pc # "done"
    /\ ~crashed
    /\ ~ctxCancelled
    /\ ctxCancelled' = TRUE
    /\ UNCHANGED <<storeVars, workerVars,
                   plan, pc, levels, completed, cfgVars, crashed, goVars, aggVars,
                   retVars>>

-----------------------------------------------------------------------------
(* The run.                                                                *)

\* orchestrator.go:87-110: an orchestrator built by NewOrchestratorAgent, with
\* any registered workers, before RunWithHistory.  The registry lacks the
\* calculator only where a worker names it; the planning response that
\* parses uses MaxTokens prompt tokens.
Init ==
    /\ plan = NoPlan
    /\ pc = "start"
    /\ levels = <<>>
    /\ completed = {}
    /\ config \in -1..MaxConfigWorkers
    /\ maxWorkers = NewMaxWorkers(config)
    /\ workers \in SUBSET WorkerNames
    /\ registry \in (IF "calculator" \in workers THEN SUBSET ToolNames ELSE {ToolNames})
    /\ EnvIdle
    /\ StoreIdle
    /\ WorkerIdle
    /\ GoIdle(0)
    /\ AggIdle
    /\ planSource = ""
    /\ steps = <<>>
    /\ runUsage = ZeroUsage
    /\ calls = NoCalls
    /\ ret = NoReturn

Goroutine(k) ==
    \/ Acquire(k)
    \/ BuildInput(k)
    \/ BuildInputMiss(k)
    \/ BuildInputFatal(k)
    \/ ChatFail(k)
    \/ ChatOk(k)
    \/ ChatToolCalls(k)
    \/ RunTools(k)
    \/ Lock(k)
    \/ Record(k)

Next ==
    \/ PlanFail
    \/ PlanParsed
    \/ PlanFallback
    \/ GroupEmpty
    \/ GroupSimple
    \/ GroupLoop
    \/ GroupReturn
    \/ StartLevel
    \/ \E k \in DOMAIN gpc : Goroutine(k)
    \/ ExecReturn
    \/ SynthFail
    \/ SynthOk
    \/ Cancel

Spec == Init /\ [][Next]_vars

\* The steps of the goroutine that called RunWithHistory.
Main ==
    \/ PlanFail
    \/ PlanParsed
    \/ PlanFallback
    \/ GroupEmpty
    \/ GroupSimple
    \/ GroupLoop
    \/ GroupReturn
    \/ StartLevel
    \/ ExecReturn
    \/ SynthFail
    \/ SynthOk

\* Every chat and tool call returns, and the scheduler runs every goroutine
\* that can take a step: the caller's and each subtask's.
Fairness ==
    /\ WF_vars(Main)
    /\ \A k \in 1..MaxTasks : WF_vars(k \in DOMAIN gpc /\ Goroutine(k))

\* The run under a fair scheduler.
SpecFair == Init /\ [][Next]_vars /\ Fairness

-----------------------------------------------------------------------------
(* buildTaskInput called on its own (part_008:265-276).                    *)

\* The lengths of a recorded output: below, at and above the excerpt limit.
OutputLens == {ExcerptMax - 1, ExcerptMax, ExcerptMax + 1}

\* The results a map may hold under an id: a failure, or a success with an
\* output of one of the lengths.
ResultsFor(id) ==
    {SubtaskResult(id, FALSE, EmptyString, "chat failed")}
        \cup {SubtaskResult(id, TRUE, Content(id, l), "") : l \in OutputLens}

\* The call's arguments: the last of n subtasks, a dependency map with at most
\* a key for it (any list over the ids 1..n and the dangling id), and a result
\* map with any results under any of the ids.
InitInput ==
    /\ \E n \in 1..MaxTasks :
         /\ \E K \in SUBSET {n} : \E d \in [K -> DepLists(n)] :
              plan = [subtasks |-> SubtasksOf(n), deps |-> d]
         /\ GoIdle(n)
         /\ calls = PlannedCalls(n)
         /\ \E R \in SUBSET (1..n) : \E m \in [R -> UNION {ResultsFor(id) : id \in 1..n}] :
              /\ \A id \in R : m[id] \in ResultsFor(id)
              /\ resultMap = m
    /\ pc = "call"
    /\ levels = <<>>
    /\ completed = {}
    /\ config = 0
    /\ maxWorkers = NewMaxWorkers(0)
    /\ workers = {}
    /\ registry = {}
    /\ EnvIdle
    /\ StoreIdle
    /\ WorkerIdle
    /\ results = <<>>
    /\ resultBy = <<>>
    /\ execUsage = ZeroUsage
    /\ planSource = "parsed"
    /\ steps = <<>>
    /\ runUsage = ZeroUsage
    /\ ret = NoReturn

\* orchestrator.go:386-403: the call returns the input of the last subtask.
CallBuildTaskInput ==
    /\ pc = "call"
    /\ input' = [input EXCEPT ![Len(plan.subtasks)] =
                    buildTaskInput(plan, plan.subtasks[Len(plan.subtasks)], resultMap)]
    /\ pc' = "returned"
    /\ UNCHANGED <<storeVars, workerVars,
                   plan, levels, completed, cfgVars, envVars, lvl, gpc, sem, mu,
                   pending, res, usage, snap, aggVars, retVars, via>>

SpecInput == InitInput /\ [][CallBuildTaskInput]_vars

-----------------------------------------------------------------------------
(* WorkerAgent.Execute called on its own (orchestrator.go:478-591).        *)

\* The variables Execute leaves alone.
runState == <<plan, pc, levels, completed, runVars>>

\* The tools a worker's registry may hold and a response may name.
RegistryTools == {"calculator", "web_search"}

\* The tool calls of a response that has some, by name.
ToolCallsUpTo(n) == UNION {[1..m -> RegistryTools] : m \in 1..n}

\* Mutant: Execute does not test llm.
LLMBound_Always(w) == TRUE

\* orchestrator.go:480: w.llm is set.
LLMBound(w) == w.llm

\* orchestrator.go:494-516: the execution goes through executeWithTools.
WithTools(w) == w.hasRegistry /\ FilteredTools(w.name, w.registry) # {}

\* Mutant: the loop stops at the first tool that returns an error.
AfterTool_Abort(i, ok) == IF ok THEN i + 1 ELSE i + MaxToolCalls

\* orchestrator.go:562: the loop goes on to the next call, error or not.
AfterTool(i, ok) == i + 1

\* A call Execute makes: Chat, ChatWithTools, or a tool's Execute.
Effect(op, name, ok) == [op |-> op, name |-> name, ok |-> ok]

\* What Execute returns.
WorkerReturn(result, u) == [result |-> result, usage |-> u]

\* A worker built by a constructor, with or without llm and registry, any
\* tools in its registry, and any input.
InitWorker ==
    /\ \E name \in WorkerNames, l \in BOOLEAN, h \in BOOLEAN :
         \E reg \in (IF h THEN SUBSET RegistryTools ELSE {{}}) :
             worker = WorkerAgent(name, l, h, reg)
    /\ winput \in {Query, 1}
    /\ wpc = "call"
    /\ resp = NoResponse
    /\ pos = 0
    /\ wlines = <<>>
    /\ effects = <<>>
    /\ wret = [result |-> NoResult, usage |-> ZeroUsage]
    /\ plan = NoPlan
    /\ pc = "start"
    /\ levels = <<>>
    /\ completed = {}
    /\ config = 0
    /\ maxWorkers = NewMaxWorkers(0)
    /\ workers = {}
    /\ registry = {}
    /\ EnvIdle
    /\ StoreIdle
    /\ GoIdle(0)
    /\ AggIdle
    /\ planSource = ""
    /\ steps = <<>>
    /\ runUsage = ZeroUsage
    /\ calls = NoCalls
    /\ ret = NoReturn

\* orchestrator.go:480-486: without llm, Execute returns at once.
ExecuteNoLLM ==
    /\ wpc = "call"
    /\ ~LLMBound(worker)
    /\ wret' = WorkerReturn(SubtaskResult(NoLLMID, FALSE, EmptyString,
                                          "LLM not configured for worker"),
                            ZeroUsage)
    /\ wpc' = "returned"
    /\ UNCHANGED <<worker, winput, resp, pos, wlines, effects, runState, storeVars>>

\* orchestrator.go:519-541: the plain chat call and its result.
ExecuteChat ==
    /\ wpc = "call"
    /\ LLMBound(worker)
    /\ ~WithTools(worker)
    /\ \E err \in BOOLEAN, t \in 1..MaxTokens :
         /\ effects' = Append(effects, Effect("Chat", "", ~err))
         /\ resp' = [err |-> err, toolCalls |-> <<>>,
                     usage |-> IF err THEN ZeroUsage ELSE ResponseUsage(t)]
         /\ wret' = IF err
                    THEN WorkerReturn(SubtaskResult(NoID, FALSE, EmptyString,
                                                    "chat failed"), ZeroUsage)
                    ELSE WorkerReturn(SubtaskResult(NoID, TRUE, Content(winput, 1), ""),
                                      ResponseUsage(t))
    /\ wpc' = "returned"
    /\ UNCHANGED <<worker, winput, pos, wlines, runState, storeVars>>

\* orchestrator.go:546-560,582-590: the chat call with tools; Execute returns
\* on an error and on a response without tool calls, and enters the loop
\* otherwise.
ExecuteWithTools ==
    /\ wpc = "call"
    /\ LLMBound(worker)
    /\ WithTools(worker)
    /\ \E err \in BOOLEAN, t \in 1..MaxTokens :
         \E tcs \in (IF err THEN {<<>>} ELSE {<<>>} \cup ToolCallsUpTo(MaxToolCalls)) :
             /\ effects' = Append(effects, Effect("ChatWithTools", "", ~err))
             /\ resp' = [err |-> err, toolCalls |-> tcs,
                         usage |-> IF err THEN ZeroUsage ELSE ResponseUsage(t)]
             /\ IF err
                THEN /\ wret' = WorkerReturn(SubtaskResult(NoID, FALSE, EmptyString,
                                                           "chat failed"), ZeroUsage)
                     /\ wpc' = "returned"
                     /\ pos' = pos
                ELSE IF tcs = <<>>
                THEN /\ wret' = WorkerReturn(SubtaskResult(NoID, TRUE,
                                                           Content(winput, 1), ""),
                                             ResponseUsage(t))
                     /\ wpc' = "returned"
                     /\ pos' = pos
                ELSE /\ wret' = wret
                     /\ wpc' = "tools"
                     /\ pos' = 1
    /\ UNCHANGED <<worker, winput, wlines, runState, storeVars>>

\* orchestrator.go:562-571: one round of the loop. A call whose tool the
\* registry holds is executed and leaves a line, with the result or with the
\* error; a call whose tool it does not hold is passed over.
ToolCall ==
    /\ wpc = "tools"
    /\ pos <= Len(resp.toolCalls)
    /\ IF resp.toolCalls[pos] \in worker.registry
       THEN \E ok \in BOOLEAN :
                /\ effects' = Append(effects, Effect("Execute", resp.toolCalls[pos], ok))
                /\ wlines' = Append(wlines, [tool |-> resp.toolCalls[pos], ok |-> ok])
                /\ pos' = AfterTool(pos, ok)
       ELSE /\ pos' = pos + 1
            /\ UNCHANGED <<effects, wlines>>
    /\ UNCHANGED <<worker, winput, wpc, resp, wret, runState, storeVars>>

\* orchestrator.go:573-581: after the loop, a success holding the lines.
ToolsReturn ==
    /\ wpc = "tools"
    /\ pos > Len(resp.toolCalls)
    /\ wret' = WorkerReturn(SubtaskResult(NoID, TRUE, ToolOutput(winput, wlines), ""),
                            resp.usage)
    /\ wpc' = "returned"
    /\ UNCHANGED <<worker, winput, resp, pos, wlines, effects, runState, storeVars>>

NextWorker ==
    \/ ExecuteNoLLM
    \/ ExecuteChat
    \/ ExecuteWithTools
    \/ ToolCall
    \/ ToolsReturn

\* WorkerAgent.Execute on every worker and input of InitWorker.
SpecWorker == InitWorker /\ [][NextWorker]_vars

-----------------------------------------------------------------------------
(* RAPTORStore (part_007) over a MemoryStore (vectorstore/memory.go).      *)

\* The variables the store's methods leave alone.
otherState ==
    <<plan, pc, levels, completed, runVars, workerVars, clustered, faults>>

\* part_007:79: the default SimilarityThreshold 0.7, in hundredths, as every
\* score is.
DefaultSimilarityThreshold == 70

\* part_006:61-79: the cosine similarity of two embeddings, 0 when one is
\* empty.  An embedding is a direction numbered along an arc: equal directions
\* score 1.00, and every step apart costs 0.30.
CosineSimilarity(a, b) ==
    IF a = NoEmbedding \/ b = NoEmbedding
        THEN 0
        ELSE 100 - 30 * (IF a > b THEN a - b ELSE b - a)

\* The embedding of a document: neighbouring documents are exactly
\* SimilarityThreshold alike, the last document is unlike the others.
DocEmbedding(id) == IF id = MaxDocs THEN id + 1 ELSE id

\* A TreeNode's ID: a document's, "cluster_l<level>_<i>", or "root".
LeafID(id) == <<"doc", id, 0>>
ClusterID(level, i) == <<"cluster", level, i>>
RootID == <<"root", 0, 0>>

\* part_007:58-68: a node without parent; born is the ghost number of the
\* Add that created it.
TreeNode(id, level, emb, summary, children, docs, born) ==
    [id |-> id, level |-> level, emb |-> emb, summary |-> summary,
     children |-> children, parent |-> NoNode, docs |-> docs, born |-> born]

\* The batches handed to Add: documents with different ids in ascending
\* order, at most MaxBatch, the last of which may lack an id.
Batches ==
    {SeqOf(S) : S \in {T \in SUBSET (1..MaxDocs) : Cardinality(T) <= MaxBatch}}
        \cup {Append(SeqOf(S), NoDocID) :
                 S \in {T \in SUBSET (1..MaxDocs) : Cardinality(T) < MaxBatch}}

\* What the summarizer and the embedder do for the i-th cluster of a round.
Outcomes == {"ok", "sumfail", "embfail"}

RECURSIVE StoredPrefix(_)
\* memory.go:35-40: the documents stored before the first one without id.
StoredPrefix(docs) ==
    IF docs = <<>> \/ Head(docs) = NoDocID THEN {}
    ELSE {Head(docs)} \cup StoredPrefix(Tail(docs))

\* memory.go:36-38: the base store returns an error.
BaseRejects(docs) == \E i \in 1..Len(docs) : docs[i] = NoDocID

\* part_007:245-246: the similarity of two nodes reaches the threshold.
Similar(h, a, b) ==
    CosineSimilarity(h[a].emb, h[b].emb) >= DefaultSimilarityThreshold

RECURSIVE TakeSimilar_Chain(_, _, _, _)
\* Mutant: a candidate is compared to the member taken last.
TakeSimilar_Chain(h, seed, cands, room) ==
    IF cands = <<>> \/ room <= 0 THEN <<>>
    ELSE IF Similar(h, seed, Head(cands))
         THEN <<Head(cands)>> \o TakeSimilar_Chain(h, Head(cands), Tail(cands), room - 1)
         ELSE TakeSimilar_Chain(h, seed, Tail(cands), room)

RECURSIVE TakeSimilar(_, _, _, _)
\* part_007:239-250: the first `room` of the candidates similar to the seed.
TakeSimilar(h, seed, cands, room) ==
    IF cands = <<>> \/ room <= 0 THEN <<>>
    ELSE IF Similar(h, seed, Head(cands))
         THEN <<Head(cands)>> \o TakeSimilar(h, seed, Tail(cands), room - 1)
         ELSE TakeSimilar(h, seed, Tail(cands), room)

RECURSIVE GreedyClusters(_, _, _)
\* part_007:231-253: the first unused node seeds a cluster, which takes the
\* later unused nodes similar to it until it has clusterSize members.
GreedyClusters(h, nodes, cs) ==
    IF nodes = <<>> THEN <<>>
    ELSE LET members == TakeSimilar(h, Head(nodes), Tail(nodes), cs - 1)
             rest    == SelectSeq(Tail(nodes), LAMBDA a : a \notin Range(members))
         IN  <<(<<Head(nodes)>> \o members)>> \o GreedyClusters(h, rest, cs)

\* part_007:222-256.
clusterNodes(h, nodes, cs) ==
    IF Len(nodes) <= cs THEN <<nodes>> ELSE GreedyClusters(h, nodes, cs)

RECURSIVE AllDocs(_, _)
\* part_007:153-162: the Documents of the nodes of a cluster, in order.
AllDocs(h, cluster) ==
    IF cluster = <<>> THEN <<>> ELSE h[Head(cluster)].docs \o AllDocs(h, Tail(cluster))

\* A map with v under key k.
SetKey(f, k, v) == [x \in DOMAIN f \cup {k} |-> IF x = k THEN v ELSE f[x]]

RECURSIVE ParentNodes_Abort(_, _, _, _, _, _)
\* Mutant: the round ends at the first summary that is not embedded.
ParentNodes_Abort(h, clusters, i, level, out, n) ==
    IF i > Len(clusters) \/ out[i] = "embfail" THEN [heap |-> h, parents |-> <<>>]
    ELSE LET parentNode ==
                 TreeNode(ClusterID(level, i - 1), level, h[clusters[i][1]].emb,
                          IF out[i] = "sumfail" THEN "fallback" ELSE "summary",
                          clusters[i], AllDocs(h, clusters[i]), n)
             h1 == Append([a \in 1..Len(h) |->
                              IF a \in Range(clusters[i])
                              THEN [h[a] EXCEPT !.parent = Len(h) + 1] ELSE h[a]],
                          parentNode)
             r  == ParentNodes_Abort(h1, clusters, i + 1, level, out, n)
         IN  [heap |-> r.heap, parents |-> <<Len(h) + 1>> \o r.parents]

RECURSIVE ParentNodes(_, _, _, _, _, _)
\* part_007:147-199: from the i-th cluster on, a parent per cluster whose
\* summary was embedded (the embedding of a summary is like that of the
\* cluster's first node); the children point to their parent.
ParentNodes(h, clusters, i, level, out, n) ==
    IF i > Len(clusters) THEN [heap |-> h, parents |-> <<>>]
    ELSE IF out[i] = "embfail" THEN ParentNodes(h, clusters, i + 1, level, out, n)
    ELSE LET parentNode ==
                 TreeNode(ClusterID(level, i - 1), level, h[clusters[i][1]].emb,
                          IF out[i] = "sumfail" THEN "fallback" ELSE "summary",
                          clusters[i], AllDocs(h, clusters[i]), n)
             h1 == Append([a \in 1..Len(h) |->
                              IF a \in Range(clusters[i])
                              THEN [h[a] EXCEPT !.parent = Len(h) + 1] ELSE h[a]],
                          parentNode)
             r  == ParentNodes(h1, clusters, i + 1, level, out, n)
         IN  [heap |-> r.heap, parents |-> <<Len(h) + 1>> \o r.parents]

\* Mutant: no root above several nodes.
SetRoot_OnlySingle(h, t, currentLevel, level, n) ==
    IF Len(currentLevel) = 1
    THEN [heap |-> h, tree |-> [t EXCEPT !.root = currentLevel[1]]]
    ELSE [heap |-> h, tree |-> t]

\* part_007:205-216: root is the only node left, or a new node above the
\* nodes left; with no node left it stays.
SetRoot(h, t, currentLevel, level, n) ==
    IF Len(currentLevel) = 1
    THEN [heap |-> h, tree |-> [t EXCEPT !.root = currentLevel[1]]]
    ELSE IF Len(currentLevel) > 1
    THEN [heap |-> Append(h, TreeNode(RootID, level + 1, NoEmbedding, "Root node",
                                      currentLevel, <<>>, n)),
          tree |-> [t EXCEPT !.root = Len(h) + 1]]
    ELSE [heap |-> h, tree |-> t]

RECURSIVE BuildLoop(_, _, _, _, _, _, _)
\* part_007:133-203: a round per level while level < MaxLevels and more than
\* one node is left; level is incremented before the clusters are counted.
BuildLoop(h, t, currentLevel, level, cfg, out, n) ==
    IF level < cfg.maxLevels /\ Len(currentLevel) > 1
    THEN LET clusters == clusterNodes(h, currentLevel, cfg.clusterSize)
         IN  IF Len(clusters) = Len(currentLevel)
             THEN SetRoot(h, t, currentLevel, level + 1, n)
             ELSE LET r == ParentNodes(h, clusters, 1, level + 1, out, n)
                  IN  BuildLoop(r.heap,
                                [t EXCEPT !.levels = SetKey(t.levels, level + 1, r.parents)],
                                r.parents, level + 1, cfg, out, n)
    ELSE SetRoot(h, t, currentLevel, level, n)

\* part_007:129-219: the build over the nodes handed to it.
buildTree(h, t, nodes, cfg, out, n) == BuildLoop(h, t, nodes, 0, cfg, out, n)

\* part_007:108-117: the leaf of a document.
LeafNode(id, n) ==
    TreeNode(LeafID(id), 0, DocEmbedding(id), "", <<>>, <<id>>, n)

\* part_007:118: levels[0] with the nodes appended.
AppendLeaves(t, leafNodes) ==
    [t EXCEPT !.levels =
        SetKey(t.levels, 0,
               (IF 0 \in DOMAIN t.levels THEN t.levels[0] ELSE <<>>) \o leafNodes)]

\* part_007:97-126, memory.go:31-43: Add of docs, the summarizer's and the
\* embedder's calls for the i-th cluster of a round ending as out[i]. The base
\* store keeps what it stored before it met a document without id; otherwise
\* the leaves of the batch are appended and the tree is built over them.
AddDocs(docs, out) ==
    /\ lastCall' = Call("Add", docs, \A i \in 1..MaxBatch : out[i] = "ok")
    /\ IF BaseRejects(docs)
        THEN /\ base' = base \cup StoredPrefix(docs)
             /\ rret' = "base add failed"
             /\ degraded' = TRUE
             /\ UNCHANGED <<heap, tree>>
        ELSE LET leafNodes == [i \in 1..Len(docs) |-> Len(heap) + i]
                 h1 == heap \o [i \in 1..Len(docs) |-> LeafNode(docs[i], adds + 1)]
                 b  == buildTree(h1, AppendLeaves(tree, leafNodes), leafNodes,
                                 rconfig, out, adds + 1)
             IN  /\ base' = base \cup Range(docs)
                 /\ heap' = b.heap
                 /\ tree' = b.tree
                 /\ rret' = "ok"
                 /\ degraded' = (degraded \/ docs = <<>>
                                   \/ \E i \in 1..MaxBatch : out[i] # "ok")
    /\ adds' = adds + 1

\* part_007:97-126: Add, of any batch, with any outcomes of the summarizer's
\* and the embedder's calls.
Add ==
    /\ MayLock
    /\ adds < MaxAdds
    /\ \E docs \in Batches, out \in [1..MaxBatch -> Outcomes] : AddDocs(docs, out)
    /\ UNCHANGED <<rconfig, search, reader, adding, otherState>>

\* Mutant: every node stays.
Remaining_All(h, nodes, ids) == nodes

\* part_007:425-430: the nodes whose ID is none of the ids.
Remaining(h, nodes, ids) ==
    SelectSeq(nodes, LAMBDA a : h[a].id \notin {LeafID(id) : id \in ids})

\* Mutant: root is reset.
DeleteNodes_ResetRoot(h, t, ids) ==
    [root |-> NoNode,
     levels |-> [l \in DOMAIN t.levels |-> Remaining(h, t.levels[l], ids)]]

\* part_007:419-432: the tree without the nodes of the ids in its levels.
DeleteNodes(h, t, ids) ==
    [t EXCEPT !.levels = [l \in DOMAIN t.levels |-> Remaining(h, t.levels[l], ids)]]

\* Mutant: root stays.
ClearTree_LevelsOnly(t) == [t EXCEPT !.levels = <<>>]

\* part_007:452-454: a new, empty tree takes the place of the tree.
ClearTree(t) == NewTree

\* part_007:409-435, memory.go:121-130: Delete. The nodes with one of the
\* ids leave every level; root and the other nodes stay as they are.
Delete ==
    /\ MayLock
    /\ tree # NewTree \/ base # {}
    /\ \E ids \in SUBSET (1..MaxDocs) \ {{}} :
         /\ lastCall' = Call("Delete", SeqOf(ids), TRUE)
         /\ base' = base \ ids
         /\ tree' = DeleteNodes(heap, tree, ids)
    /\ rret' = "ok"
    /\ degraded' = TRUE
    /\ UNCHANGED <<rconfig, heap, adds, search, reader, adding, otherState>>

\* part_007:448-457, memory.go:155-161: Clear. The store is as new; the nodes
\* of the old tree are out of its reach.
Clear ==
    /\ MayLock
    /\ tree # NewTree \/ base # {}
    /\ tree' = ClearTree(tree)
    /\ base' = {}
    /\ heap' = <<>>
    /\ adds' = 0
    /\ degraded' = FALSE
    /\ rret' = "ok"
    /\ lastCall' = Call("Clear", <<>>, TRUE)
    /\ UNCHANGED <<rconfig, search, reader, adding, otherState>>

\* part_007:71-94: a new store over an empty base store, with any config.
InitStore ==
    /\ \E ml \in 0..MaxLevelsCfg, cs \in 0..MaxClusterCfg :
         rconfig = NewRAPTORConfig(ml, cs)
    /\ base = {}
    /\ heap = <<>>
    /\ tree = NewTree
    /\ adds = 0
    /\ degraded = FALSE
    /\ rret = ""
    /\ lastCall = NoCall
    /\ search = NoSearch
    /\ reader = NoReader
    /\ adding = NoAdd
    /\ clustered = NoClusters
    /\ faults = NoFaults
    /\ plan = NoPlan
    /\ pc = "start"
    /\ levels = <<>>
    /\ completed = {}
    /\ config = 0
    /\ maxWorkers = NewMaxWorkers(0)
    /\ workers = {}
    /\ registry = {}
    /\ EnvIdle
    /\ WorkerIdle
    /\ GoIdle(0)
    /\ AggIdle
    /\ planSource = ""
    /\ steps = <<>>
    /\ runUsage = ZeroUsage
    /\ calls = NoCalls
    /\ ret = NoReturn

NextStore == Add \/ Delete \/ Clear

\* Any sequence of Add, Delete and Clear on a new store.
SpecStore == InitStore /\ [][NextStore]_vars

-----------------------------------------------------------------------------
(* clusterNodes, called directly.                                           *)

\* The embeddings of the nodes handed to clusterNodes: none, or a direction.
NodeEmbeddings == {NoEmbedding} \cup 1..MaxNodes

\* A store with a ClusterSize and nodes of any embeddings, in any order,
\* which are in no tree yet.
InitCluster ==
    /\ \E cs \in 1..MaxClusterSize : rconfig = NewRAPTORConfig(0, cs)
    /\ \E n \in 0..MaxNodes : \E embs \in [1..n -> NodeEmbeddings] :
         heap = [i \in 1..n |-> TreeNode(LeafID(i), 0, embs[i], "", <<>>, <<i>>, 0)]
    /\ base = {}
    /\ tree = NewTree
    /\ adds = 0
    /\ degraded = FALSE
    /\ rret = ""
    /\ lastCall = NoCall
    /\ search = NoSearch
    /\ reader = NoReader
    /\ adding = NoAdd
    /\ clustered = NoClusters
    /\ faults = NoFaults
    /\ plan = NoPlan
    /\ pc = "start"
    /\ levels = <<>>
    /\ completed = {}
    /\ config = 0
    /\ maxWorkers = NewMaxWorkers(0)
    /\ workers = {}
    /\ registry = {}
    /\ EnvIdle
    /\ WorkerIdle
    /\ GoIdle(0)
    /\ AggIdle
    /\ planSource = ""
    /\ steps = <<>>
    /\ runUsage = ZeroUsage
    /\ calls = NoCalls
    /\ ret = NoReturn

\* part_007:222-256: clusterNodes over all the nodes, in their order.
CallClusterNodes ==
    /\ ~clustered.called
    /\ clustered' =
           [called |-> TRUE,
            clusters |-> clusterNodes(heap, [i \in 1..Len(heap) |-> i],
                                      rconfig.clusterSize)]
    /\ UNCHANGED <<plan, pc, levels, completed, runVars, workerVars, rconfig, base,
                   heap, tree, adds, degraded, rret, lastCall, search, reader, adding,
                   faults>>

NextCluster == CallClusterNodes

\* A direct call of clusterNodes.
SpecCluster == InitCluster /\ [][NextCluster]_vars

-----------------------------------------------------------------------------
(* Add on a new store, with a summarizer and an embedder that fail.         *)

\* A new store of any configuration, a batch, and for the i-th cluster of a
\* round whether its summary and its embedding are made.
InitBuild ==
    /\ \E ml \in 0..MaxLevelsCfg, cs \in 0..MaxClusterCfg :
         rconfig = NewRAPTORConfig(ml, cs)
    /\ \E docs \in Batches, out \in [1..MaxBatch -> Outcomes] :
         faults = [called |-> FALSE, docs |-> docs, out |-> out]
    /\ base = {}
    /\ heap = <<>>
    /\ tree = NewTree
    /\ adds = 0
    /\ degraded = FALSE
    /\ rret = ""
    /\ lastCall = NoCall
    /\ search = NoSearch
    /\ reader = NoReader
    /\ adding = NoAdd
    /\ clustered = NoClusters
    /\ plan = NoPlan
    /\ pc = "start"
    /\ levels = <<>>
    /\ completed = {}
    /\ config = 0
    /\ maxWorkers = NewMaxWorkers(0)
    /\ workers = {}
    /\ registry = {}
    /\ EnvIdle
    /\ WorkerIdle
    /\ GoIdle(0)
    /\ AggIdle
    /\ planSource = ""
    /\ steps = <<>>
    /\ runUsage = ZeroUsage
    /\ calls = NoCalls
    /\ ret = NoReturn

\* part_007:97-126: Add of the batch, the calls ending as given.
AddWithFaults ==
    /\ ~faults.called
    /\ AddDocs(faults.docs, faults.out)
    /\ faults' = [faults EXCEPT !.called = TRUE]
    /\ UNCHANGED <<plan, pc, levels, completed, runVars, workerVars, rconfig,
                   search, reader, adding, clustered>>

NextBuild == AddWithFaults

\* An Add on a new store.
SpecBuild == InitBuild /\ [][NextBuild]_vars

-----------------------------------------------------------------------------
(* RAPTORStore.Search and SearchWithContext.                                *)

\* The query embeddings: the empty embedding, and directions on or next to
\* the documents'.
Queries == {NoEmbedding} \cup 1..MaxDocs

\* The limits handed to Search: none, less than the documents there are, and
\* at least as many as the leaves there can be.
Limits == 0..MaxLimit \cup {MaxAdds * MaxBatch}

\* The limits handed to SearchWithContext, which doubles them for Search.
ContextLimits == 0..MaxLimit

\* Orders an unstable sort can leave results of equal score in, as a rank of
\* the documents: by ascending and by descending id.
TieRanks ==
    {[i \in 1..MaxDocs |-> i], [i \in 1..MaxDocs |-> MaxDocs + 1 - i]}

\* store.go:11-17: a SearchResult, with its Document's ID and content.
\* Ghosts: node is the TreeNode it was made from, doc the first document of
\* that node, path the non-leaf nodes whose children were searched on the
\* way to it, the scanned one first.
SearchResult(id, content, score, node, doc, path) ==
    [id |-> id, content |-> content, score |-> score, node |-> node, doc |-> doc,
     path |-> path]

\* part_007:274-286, 322-334: the result made from a leaf.
LeafResult(h, q, a, path) ==
    SearchResult(h[a].id, "", CosineSimilarity(q, h[a].emb), a, h[a].docs[1], path)

\* part_007:334: a non-leaf child is searched when it has children.
Descend(h, q, child) == Len(h[child].children) > 0

RECURSIVE searchChildren(_, _, _, _)
\* part_007:317-342: the results of the leaves under the children cs of the
\* last node of path.
searchChildren(h, q, cs, path) ==
    IF cs = <<>> THEN <<>>
    ELSE LET child == Head(cs)
         IN  (IF h[child].level = 0
                  THEN <<LeafResult(h, q, child, path)>>
              ELSE IF Descend(h, q, child)
                  THEN searchChildren(h, q, h[child].children, Append(path, child))
              ELSE <<>>)
             \o searchChildren(h, q, Tail(cs), path)

RECURSIVE ScanNodes(_, _, _, _)
\* part_007:273-292: the results of the nodes of one level.
ScanNodes(h, q, level, nodes) ==
    IF nodes = <<>> THEN <<>>
    ELSE LET node == Head(nodes)
         IN  (IF level = 0
                  THEN <<LeafResult(h, q, node, <<>>)>>
              ELSE IF CosineSimilarity(q, h[node].emb) > DefaultSimilarityThreshold
                  THEN searchChildren(h, q, h[node].children, <<node>>)
              ELSE <<>>)
             \o ScanNodes(h, q, level, Tail(nodes))

RECURSIVE ScanLevels(_, _, _, _)
\* part_007:267-293: allResults, from level downwards.
ScanLevels(h, t, q, level) ==
    IF level < 0 THEN <<>>
    ELSE (IF level \in DOMAIN t.levels
              THEN ScanNodes(h, q, level, t.levels[level]) ELSE <<>>)
         \o ScanLevels(h, t, q, level - 1)

\* part_007:295-298: x is sorted before y: its score is higher, or, the
\* scores being equal, the sort happened to leave it first.
Precedes(x, y, rank) ==
    \/ x.score > y.score
    \/ /\ x.score = y.score
       /\ rank[x.doc] < rank[y.doc]

\* Mutant: the results are left unsorted, in reverse.
SortByScore_Ascending(rs, rank) ==
    [i \in 1..Len(rs) |-> rs[Len(rs) + 1 - i]]

RECURSIVE SortByScore(_, _)
\* part_007:295-298: sort.Slice by descending score.
SortByScore(rs, rank) ==
    IF rs = <<>> THEN <<>>
    ELSE LET first == CHOOSE i \in 1..Len(rs) :
                          \A j \in 1..Len(rs) :
                              \/ j = i
                              \/ Precedes(rs[i], rs[j], rank)
                              \/ ~Precedes(rs[j], rs[i], rank) /\ i < j
         IN  <<rs[first]>>
             \o SortByScore([j \in 1..(Len(rs) - 1) |->
                                   IF j < first THEN rs[j] ELSE rs[j + 1]], rank)

RECURSIVE Unique(_, _, _, _)
\* part_007:300-311: the first result of every id, until there are limit.
Unique(sorted, seen, unique, limit) ==
    IF sorted = <<>> THEN unique
    ELSE LET result == Head(sorted)
         IN  IF result.id \in seen
                 THEN Unique(Tail(sorted), seen, unique, limit)
             ELSE IF Len(unique) + 1 >= limit
                 THEN Append(unique, result)
             ELSE Unique(Tail(sorted), seen \cup {result.id},
                         Append(unique, result), limit)

\* part_007:264-293: the candidates of a search.
AllResults(h, t, cfg, q) == ScanLevels(h, t, q, cfg.maxLevels)

\* part_007:259-314: what Search returns.
SearchResults(h, t, cfg, q, limit, rank) ==
    Unique(SortByScore(AllResults(h, t, cfg, q), rank), {}, <<>>, limit)

\* A search call in progress, with what it is about to return.
\* Ghost: candidates is Search's allResults.
SearchCall(op, q, limit, candidates, found, err) ==
    [op |-> op, query |-> q, limit |-> limit, candidates |-> candidates,
     results |-> found, err |-> err]

\* part_007:259-314: Search, under the read lock.
Search ==
    /\ search = NoSearch
    /\ \E q \in Queries, limit \in Limits, rank \in TieRanks :
         search' = SearchCall("Search", q, limit, AllResults(heap, tree, rconfig, q),
                              SearchResults(heap, tree, rconfig, q, limit, rank), "")
    /\ UNCHANGED <<rconfig, base, heap, tree, adds, degraded, rret, lastCall, reader, adding,
                   otherState>>

RECURSIVE findNode(_, _, _, _)
\* part_007:397-406: the first node with the id in the levels ls.  A node id
\* is found in one level only, so the order the map yields its levels in
\* does not matter.
findNode(h, t, ls, id) ==
    IF ls = <<>> THEN NoNode
    ELSE LET found == SelectSeq(t.levels[Head(ls)], LAMBDA a : h[a].id = id)
         IN  IF found # <<>> THEN found[1] ELSE findNode(h, t, Tail(ls), id)

\* part_007:372: the ID of the context result of a parent, its ID followed
\* by "_context".
ContextID(id) == <<"context", id[2], id[3]>>

\* Mutant: the context result has the score of the result.
ContextScore_Same(score) == score

\* part_007:379: the score of a context result, 0.8 times the result's.
ContextScore(score) == (score * 8) \div 10

\* part_007:370-380: the context result of a result whose node is found and
\* has the parent p.
ContextResult(h, p, result) ==
    SearchResult(ContextID(h[p].id), <<"[Context]", h[p].summary>>,
                 ContextScore(result.score), p, result.doc, <<>>)

RECURSIVE Expand(_, _, _)
\* part_007:363-382: every result, each followed by its context result.
Expand(h, t, rs) ==
    IF rs = <<>> THEN <<>>
    ELSE LET result == Head(rs)
             node == findNode(h, t, SeqOf(DOMAIN t.levels), result.id)
         IN  <<result>>
             \o (IF node # NoNode /\ h[node].parent # NoNode
                     THEN <<ContextResult(h, h[node].parent, result)>> ELSE <<>>)
             \o Expand(h, t, Tail(rs))

\* part_007:358-393: the results with their context results, sorted, and
\* the first limit of them.
ContextResults(h, t, rs, limit, rank) ==
    IF rs = <<>> THEN <<>>
    ELSE LET contextResults == SortByScore(Expand(h, t, rs), rank)
         IN  IF Len(contextResults) > limit
                 THEN SubSeq(contextResults, 1, limit) ELSE contextResults

\* part_007:345-394: SearchWithContext. The embedder fails, or the results
\* of Search with twice the limit are expanded.
\* Ghost: candidates is what Search returned.
SearchWithContext ==
    /\ search = NoSearch
    /\ \/ \E limit \in ContextLimits :
            search' = SearchCall("SearchWithContext", NoEmbedding, limit, <<>>, <<>>,
                                 "embedding failed")
       \/ \E q \in Queries, limit \in ContextLimits, rank \in TieRanks :
            LET rs == SearchResults(heap, tree, rconfig, q, limit * 2, rank)
            IN  search' = SearchCall("SearchWithContext", q, limit, rs,
                                     ContextResults(heap, tree, rs, limit, rank), "")
    /\ UNCHANGED <<rconfig, base, heap, tree, adds, degraded, rret, lastCall, reader, adding,
                   otherState>>

\* part_007:261, 313, 393: the call returns; Search releases the lock.
SearchReturn ==
    /\ search # NoSearch
    /\ search' = NoSearch
    /\ UNCHANGED <<rconfig, base, heap, tree, adds, degraded, rret, lastCall, reader, adding,
                   otherState>>

\* part_007:71-94: a new store with the largest MaxLevels and ClusterSize.
InitSearch ==
    /\ InitStore
    /\ rconfig = NewRAPTORConfig(MaxLevelsCfg, MaxClusterCfg)

NextSearch == Add \/ Delete \/ Clear \/ Search \/ SearchWithContext \/ SearchReturn

\* Any sequence of Add, Delete, Clear and searches on a new store.
SpecSearch == InitSearch /\ [][NextSearch]_vars

-----------------------------------------------------------------------------
(* Concurrent callers: Add and SearchWithContext step by step.              *)

\* The query embedding of the concurrent SearchWithContext.
RaceQueries == {DocEmbedding(1)}

\* The batches of the concurrent Add: documents that all have an id, for
\* which every summarizer and embedder call succeeds.
RaceBatches == {docs \in Batches : Len(docs) = MaxBatch - 1 /\ ~BaseRejects(docs)}

RaceOutcomes == [1..MaxBatch -> {"ok"}]

\* part_007:97-118: Add locks mu, adds the documents to the base store and
\* appends their leaves to levels[0].
AddBegin ==
    /\ MayLock
    /\ adds < MaxAdds
    /\ \E docs \in RaceBatches :
         LET leafNodes == [i \in 1..Len(docs) |-> Len(heap) + i]
         IN  /\ base' = base \cup Range(docs)
             /\ heap' = heap \o [i \in 1..Len(docs) |-> LeafNode(docs[i], adds + 1)]
             /\ tree' = AppendLeaves(tree, leafNodes)
             /\ adding' = [locked |-> TRUE, docs |-> docs, leafNodes |-> leafNodes]
    /\ UNCHANGED <<rconfig, adds, degraded, rret, lastCall, search, reader, otherState>>

\* part_007:120-126: Add builds the tree over the new leaves, returns and
\* unlocks mu.
AddBuild ==
    /\ adding.locked
    /\ reader.pc # "crashed"
    /\ \E out \in RaceOutcomes :
         LET b == buildTree(heap, tree, adding.leafNodes, rconfig, out, adds + 1)
         IN  /\ heap' = b.heap
             /\ tree' = b.tree
    /\ lastCall' = Call("Add", adding.docs, TRUE)
    /\ UNCHANGED degraded
    /\ rret' = "ok"
    /\ adds' = adds + 1
    /\ adding' = NoAdd
    /\ UNCHANGED <<rconfig, base, search, reader, otherState>>

\* part_007:345-353, 259-311: SearchWithContext embeds the query and calls
\* Search, which takes the read lock and computes its results.
CtxBegin ==
    /\ reader.pc = "idle"
    /\ search = NoSearch
    /\ ~adding.locked
    /\ \E q \in RaceQueries, rank \in TieRanks :
         search' = SearchCall("Search", q, RaceLimit * 2,
                              AllResults(heap, tree, rconfig, q),
                              SearchResults(heap, tree, rconfig, q, RaceLimit * 2, rank),
                              "")
    /\ reader' = [pc |-> "search"]
    /\ UNCHANGED <<rconfig, base, heap, tree, adds, degraded, rret, lastCall, adding,
                   otherState>>

\* part_007:261, 313, 353-363: Search unlocks and returns; without results
\* SearchWithContext returns.
\* Ghost: torn, a lookup has found a leaf that an Add in progress appended.
CtxSearched ==
    /\ reader.pc = "search"
    /\ reader' = IF search.results = <<>> THEN NoReader
                 ELSE [pc |-> "lookup", results |-> search.results, k |-> 1,
                       contextResults |-> <<>>, torn |-> FALSE]
    /\ search' = NoSearch
    /\ UNCHANGED <<rconfig, base, heap, tree, adds, degraded, rret, lastCall, adding,
                   otherState>>

\* part_007:364-382, 397-406: a round of the loop over the results. findNode
\* reads the levels with no lock held; when an Add is writing them the read
\* is a data race, which yields the levels as they are or ends the process
\* (concurrent map read and map write).
CtxFind ==
    /\ reader.pc = "lookup"
    /\ reader.k <= Len(reader.results)
    /\ \/ LET result == reader.results[reader.k]
              node == findNode(heap, tree, SeqOf(DOMAIN tree.levels), result.id)
          IN  reader' =
                  [reader EXCEPT
                      !.k = @ + 1,
                      !.contextResults =
                          @ \o <<result>>
                            \o (IF node # NoNode /\ heap[node].parent # NoNode
                                    THEN <<ContextResult(heap, heap[node].parent, result)>>
                                    ELSE <<>>),
                      !.torn = @ \/ node \in Range(adding.leafNodes)]
       \/ /\ adding.locked
          /\ reader' = [pc |-> "crashed"]
    /\ UNCHANGED <<rconfig, base, heap, tree, adds, degraded, rret, lastCall, search,
                   adding, otherState>>

\* part_007:384-393: SearchWithContext sorts, cuts and returns.
CtxReturn ==
    /\ reader.pc = "lookup"
    /\ reader.k > Len(reader.results)
    /\ reader' = NoReader
    /\ UNCHANGED <<rconfig, base, heap, tree, adds, degraded, rret, lastCall, search,
                   adding, otherState>>

NextRace ==
    \/ AddBegin \/ AddBuild \/ Delete \/ Clear
    \/ CtxBegin \/ CtxSearched \/ CtxFind \/ CtxReturn

\* part_007:71-94: a new store with the default config.
InitRace ==
    /\ InitStore
    /\ rconfig = NewRAPTORConfig(0, 0)

\* A caller that adds, deletes and clears, and a concurrent caller of
\* SearchWithContext, on a new store.
SpecRace == InitRace /\ [][NextRace]_vars

-----------------------------------------------------------------------------
(* Properties of groupByLevel.                                             *)

\* groupByLevel has returned.
Grouped == pc \notin {"start", "group"}

PlanIds(p) == Range(IdsOf(p.subtasks))

UniqueIds(p) ==
    \A i, j \in 1..Len(p.subtasks) : p.subtasks[i].id = p.subtasks[j].id => i = j

DepSet(p, id) == Range(DepsOf(p, id))

\* Some subtask names a dependency that is no subtask of the plan.
HasDangling(p) == \E a \in PlanIds(p) : \E d \in DepSet(p, a) : d \notin PlanIds(p)

\* The dependency map has a cycle among the plan's subtasks: a non-empty set
\* of subtasks each of which depends on a member of the set.
HasCycle(p) ==
    \E S \in SUBSET PlanIds(p) :
        S # {} /\ \A a \in S : DepSet(p, a) \cap S # {}

\* The places <<level, slot>> of a list of levels.
Positions(lv) == UNION {{<<l, k>> : k \in 1..Len(lv[l])} : l \in 1..Len(lv)}

\* Every subtask of the plan is at exactly one place of the levels.
ExactlyOnce(p, lv) ==
    /\ Cardinality(Positions(lv)) = Len(p.subtasks)
    /\ \A k \in 1..Len(p.subtasks) :
         Cardinality({x \in Positions(lv) : lv[x[1]][x[2]] = p.subtasks[k]}) = 1

LevelOf(lv, id) == CHOOSE l \in 1..Len(lv) : id \in Range(IdsOf(lv[l]))

\* The ids placed in the levels before level l.
Before(lv, l) == UNION {Range(IdsOf(lv[m])) : m \in 1..(l - 1)}

\* No subtask outside `done` has all its dependencies in `done`.
NoneQualifies(p, done) ==
    \A a \in PlanIds(p) \ done : \E d \in DepSet(p, a) : d \notin done

\* The subtasks outside `done`, in plan order.
Unleveled(p, done) == SelectSeq(p.subtasks, LAMBDA t : t.id \notin done)

C3_CycleFlush ==
    (levels # <<>> /\ UniqueIds(plan) /\ HasCycle(plan)) =>
        /\ Len(levels) <= Len(plan.subtasks)
        /\ \A l \in 1..Len(levels) : Len(levels[l]) > 0
        /\ Grouped => ExactlyOnce(plan, levels)
        /\ \A l \in 1..Len(levels) :
             NoneQualifies(plan, Before(levels, l)) =>
                 levels[l] = Unleveled(plan, Before(levels, l))

\* A cycle of two subtasks was flushed into one level after a first level.
C3_Witness ==
    /\ pc = "exec" /\ HasCycle(plan) /\ ~HasDangling(plan)
    /\ Len(levels) = 2 /\ Len(levels[2]) = 2

\* groupByLevel of the plan with the dangling ids removed from its lists.
StripDangling(p) ==
    [p EXCEPT !.deps = [id \in DOMAIN p.deps |->
                           SelectSeq(p.deps[id], LAMBDA d : d \in PlanIds(p))]]

\* C10 as claimed: a dangling id counts as satisfied, so the levels are those
\* of the plan without it.
C10_DanglingSatisfied ==
    (Grouped /\ UniqueIds(plan) /\ HasDangling(plan)) =>
        levels = groupByLevel(StripDangling(plan))

\* C10 as the code has it: a dangling id is never satisfied. A subtask that
\* names one is placed by the force-flush, in the last level, with every
\* subtask still unleveled then; a dependent is never in an earlier level
\* than its dependency, and is in a later one unless it is in that last level.
C10_DanglingFlushed ==
    (Grouped /\ UniqueIds(plan) /\ HasDangling(plan)) =>
        LET last == Len(levels) IN
        /\ ExactlyOnce(plan, levels)
        /\ \A a \in PlanIds(plan) :
             (\E d \in DepSet(plan, a) : d \notin PlanIds(plan)) => LevelOf(levels, a) = last
        /\ NoneQualifies(plan, Before(levels, last))
        /\ levels[last] = Unleveled(plan, Before(levels, last))
        /\ \A a, b \in PlanIds(plan) :
             b \in DepSet(plan, a) =>
                 /\ LevelOf(levels, a) >= LevelOf(levels, b)
                 /\ LevelOf(levels, a) < last => LevelOf(levels, a) > LevelOf(levels, b)

\* A subtask with a dangling dependency and its dependent share the last level.
C10_Witness ==
    /\ pc = "exec" /\ HasDangling(plan) /\ ~HasCycle(plan)
    /\ Len(levels) = 2
    /\ \E a, b \in PlanIds(plan) :
         /\ b \in DepSet(plan, a)
         /\ LevelOf(levels, a) = 2 /\ LevelOf(levels, b) = 2

-----------------------------------------------------------------------------
(* Properties of the run.                                                  *)

\* The goroutine (position in the plan) of the subtask with this id.
IdxOf(id) == CHOOSE k \in 1..Len(plan.subtasks) : plan.subtasks[k].id = id

\* The goroutine has taken its slot: it builds its input or is past that.
Started(k) == gpc[k] \notin {"idle", "wait"}

\* The goroutine has built its input.
HasBuilt(k) == gpc[k] \in {"built", "tools", "ret", "locked", "done"}

\* The goroutine's chat call has not returned.
BeforeReturn(k) == gpc[k] \in {"wait", "acq", "built"}

\* The goroutine's result is in results and in resultMap.
Recorded(k) ==
    /\ gpc[k] = "done"
    /\ \E i \in 1..Len(results) : i <= Len(resultBy) /\ resultBy[i] = k /\ results[i] = res[k]
    /\ plan.subtasks[k].id \in DOMAIN resultMap

\* The goroutines that hold a semaphore slot.
Holding == {k \in DOMAIN gpc : gpc[k] \in {"acq", "built", "tools", "ret", "locked"}}

RECURSIVE SumOver(_, _)
\* The sum of f over the set S.
SumOver(f, S) ==
    IF S = {} THEN 0
    ELSE LET x == CHOOSE y \in S : TRUE IN f[x] + SumOver(f, S \ {x})

\* The run can take a step unless it returned or the process was stopped.
NoHang == (pc # "done" /\ ~crashed) => ENABLED Next

\* C1: a subtask of a level takes its slot, builds its input or calls its
\* worker only when every subtask of every earlier level has recorded its
\* result (success or failure) in results and resultMap.
C1_Barrier ==
    \A k \in DOMAIN gpc :
        Started(k) =>
            \A j \in DOMAIN gpc :
                LevelOf(levels, plan.subtasks[j].id) < LevelOf(levels, plan.subtasks[k].id)
                    => Recorded(j)

\* A subtask of the second level runs after a first level of two subtasks,
\* one of which failed.
C1_Witness ==
    /\ pc = "exec" /\ lvl = 2
    /\ \E k \in LevelIndices(2) : gpc[k] = "built"
    /\ Cardinality(LevelIndices(1)) = 2
    /\ \E i, j \in LevelIndices(1) : ~res[i].success /\ res[j].success

\* C4 as claimed: over an acyclic plan (here one without dangling ids too),
\* a subtask that has built its input did so after each of its dependencies
\* recorded its result, and the input holds the excerpt of every dependency
\* that succeeded.
C4_InputAfterDeps ==
    (UniqueIds(plan) /\ ~HasCycle(plan) /\ ~HasDangling(plan)) =>
        \A k \in DOMAIN gpc :
            HasBuilt(k) =>
                \A d \in DepSet(plan, plan.subtasks[k].id) \cap PlanIds(plan) :
                    /\ Recorded(IdxOf(d))
                    /\ res[IdxOf(d)].success =>
                         ContextLine(d, res[IdxOf(d)]) \in Range(input[k].context)

\* C5: MaxWorkers is the configured value, or 5 when that is not positive; the
\* subtasks holding a slot are never more than MaxWorkers, the semaphore
\* counts exactly them, and every other subtask of the level in flight waits
\* for a slot or is done.
C5_BoundedWorkers ==
    /\ maxWorkers = (IF config <= 0 THEN 5 ELSE config)
    /\ Cardinality(Holding) <= maxWorkers
    /\ sem = Cardinality(Holding)
    /\ (pc = "exec" /\ lvl >= 1) =>
         /\ Holding \subseteq LevelIndices(lvl)
         /\ \A k \in LevelIndices(lvl) \ Holding : gpc[k] \in {"wait", "done"}

\* With MaxWorkers 2 and a level of three subtasks, two hold a slot and the
\* third waits.
C5_Witness ==
    /\ config = 2
    /\ Cardinality(Holding) = 2
    /\ \E k \in DOMAIN gpc : gpc[k] = "wait"
    /\ \E k \in DOMAIN gpc : gpc[k] = "built"

\* C6: at most one goroutine is between mu.Lock and mu.Unlock; when
\* executeSubtasks has returned for a plan with unique ids, results holds
\* exactly one result per subtask (the one its execution returned), resultMap
\* has that result under every subtask id, and the usage is the sum of the
\* usages of all executions.
C6_Aggregation ==
    /\ Cardinality({k \in DOMAIN gpc : gpc[k] = "locked"}) <= 1
    /\ (pc \in {"synth", "done"} /\ UniqueIds(plan)) =>
         /\ Len(results) = Len(plan.subtasks)
         /\ \A k \in DOMAIN gpc :
              Cardinality({i \in 1..Len(results) :
                             resultBy[i] = k /\ results[i] = res[k]}) = 1
         /\ DOMAIN resultMap = PlanIds(plan)
         /\ \A k \in DOMAIN gpc : resultMap[plan.subtasks[k].id] = res[k]
         /\ execUsage.prompt = SumOver([k \in DOMAIN usage |-> usage[k].prompt], DOMAIN usage)
         /\ execUsage.completion =
              SumOver([k \in DOMAIN usage |-> usage[k].completion], DOMAIN usage)
         /\ execUsage.total = SumOver([k \in DOMAIN usage |-> usage[k].total], DOMAIN usage)

\* executeSubtasks returned for one level of three subtasks that recorded in
\* the order 3, 1, 2: one failed, the others used different token counts.
C6_Witness ==
    /\ pc = "synth"
    /\ Len(levels) = 1
    /\ resultBy = <<3, 1, 2>>
    /\ ~res[1].success
    /\ usage[2].prompt # usage[3].prompt
    /\ execUsage.total = 5

\* C7: a subtask whose chat call failed is recorded with success=false and
\* the error message; whatever failed, the run can always take a step, and
\* when executeSubtasks has returned every subtask made its chat call and
\* the synthesis call follows.
C7_FailureContained ==
    /\ \A k \in DOMAIN gpc :
         (calls.sub[k] = "error" /\ gpc[k] = "done") =>
             /\ Recorded(k)
             /\ ~res[k].success
             /\ res[k].error \in {"chat failed", "context canceled"}
             /\ resultMap[plan.subtasks[k].id] = res[k]
    /\ NoHang
    /\ pc \in {"synth", "done"} =>
         \A k \in DOMAIN gpc : gpc[k] = "done" /\ calls.sub[k] # "none"
    /\ (pc = "done" /\ calls.plan = "ok") => calls.synth # "none"

\* The first subtask failed; its sibling and its dependent made their chat
\* calls, and the run returned a response.
C7_Witness ==
    /\ pc = "done" /\ ret.kind = "response"
    /\ Len(levels) = 2 /\ Cardinality(LevelIndices(1)) = 2
    /\ calls.sub[1] = "error"
    /\ 1 \in LevelIndices(1)
    /\ \E k \in LevelIndices(2) : 1 \in DepSet(plan, plan.subtasks[k].id) /\ calls.sub[k] = "ok"
    /\ \E k \in LevelIndices(1) : calls.sub[k] = "ok"

\* C8: RunWithHistory returns a response or an error, never both and nothing
\* before it is done; it returns the error exactly when the planning call or
\* the synthesis call failed; after a failed planning call no subtask ran and
\* no synthesis call was made.
C8_ResponseOrError ==
    /\ pc # "done" => ret.kind = "none"
    /\ pc = "done" =>
         /\ ret.kind \in {"response", "error"}
         /\ (ret.kind = "error") <=> (calls.plan = "error" \/ calls.synth = "error")
         /\ (ret.kind = "error") <=> (ret.err # "")
         /\ calls.plan = "error" =>
              /\ calls.sub = <<>>
              /\ results = <<>>
              /\ calls.synth = "none"
              /\ ret.err = "planning failed"
         /\ calls.synth = "error" => ret.err = "synthesis failed"

\* Three subtasks all failed and the run returned a response.
C8_Witness ==
    /\ pc = "done" /\ ret.kind = "response"
    /\ Len(plan.subtasks) = 3
    /\ \A k \in DOMAIN gpc : calls.sub[k] = "error"

C11_FallbackPlan ==
    planSource = "fallback" =>
        /\ calls.plan = "ok"
        /\ Len(plan.subtasks) = 1
        /\ plan.subtasks[1].wtype = "general"
        /\ plan.subtasks[1].input = Query
        /\ DOMAIN plan.deps = {}
        /\ calls.planUsage.total > 0
        /\ pc = "group" => runUsage = calls.planUsage
        /\ runUsage.total >= calls.planUsage.total
        /\ ret.err # "planning failed"
        /\ NoHang
        /\ ~crashed
        /\ HasBuilt(1) => input[1] = [own |-> Query, header |-> FALSE, context |-> <<>>]
        /\ pc \in {"synth", "done"} => (gpc[1] = "done" /\ calls.sub[1] # "none")
        /\ pc = "done" => calls.synth # "none"

\* A run on the fallback plan returned a response; the planning call used
\* fewer than MaxTokens prompt tokens.
C11_Witness ==
    /\ planSource = "fallback"
    /\ pc = "done" /\ ret.kind = "response"
    /\ calls.planUsage.prompt < MaxTokens
    /\ calls.sub[1] = "ok"

\* C12: buildTaskInput returns the subtask's own input alone when it has no
\* dependencies; otherwise the input is followed by the context header and
\* one entry per listed dependency whose result is in the map with Success
\* set, in list order, each holding the dependency's id and its output cut to
\* at most 200 characters (unchanged when it fits); a dependency that failed
\* or has no result adds no entry.
C12_BuildTaskInput ==
    pc = "returned" =>
        LET k    == Len(plan.subtasks)
            task == plan.subtasks[k]
            deps == DepsOf(plan, task.id)
            good == SelectSeq(deps, LAMBDA d : d \in DOMAIN resultMap /\ resultMap[d].success)
            got  == input[k]
        IN  /\ got.own = task.input
            /\ Len(deps) = 0 => (~got.header /\ got.context = <<>>)
            /\ Len(deps) > 0 =>
                 /\ got.header
                 /\ Len(got.context) = Len(good)
                 /\ \A i \in 1..Len(good) :
                      LET out == resultMap[good[i]].output
                          txt == got.context[i].text
                      IN  /\ got.context[i].dep = good[i]
                          /\ txt.src = out.src
                          /\ txt.len <= 200
                          /\ out.len <= 200 => txt = out
                          /\ out.len > 200 => (txt.cut /\ txt.len = 200)

\* Of two dependencies the first succeeded with an output longer than the
\* limit and the second failed: the context has the one entry, cut.
C12_Witness ==
    /\ pc = "returned"
    /\ Len(plan.subtasks) = 3
    /\ DepsOf(plan, 3) = <<1, 2>>
    /\ 2 \in DOMAIN resultMap /\ ~resultMap[2].success
    /\ Len(input[3].context) = 1
    /\ input[3].context[1].dep = 1
    /\ input[3].context[1].text.cut

\* C13 as claimed: every result in results carries the id of the subtask
\* whose execution produced it, and so does the step made from it.
C13_ResultIds ==
    /\ \A i \in 1..Len(results) : results[i].id = plan.subtasks[resultBy[i]].id
    /\ \A k \in DOMAIN gpc :
         gpc[k] \in {"ret", "locked", "done"} => res[k].id = plan.subtasks[k].id
    /\ pc \in {"synth", "done"} =>
         \A i \in 1..Len(results) : steps[1 + i].name = plan.subtasks[resultBy[i]].id

\* C14 as claimed: a subtask goes to the worker registered under its
\* worker_type, else to the registered general worker, and to the default
\* execution only when no worker is registered at all.
C14_DefaultOnlyWithoutWorkers ==
    \A k \in DOMAIN via :
        via[k] # "none" =>
            /\ plan.subtasks[k].wtype \in workers => via[k] = plan.subtasks[k].wtype
            /\ (plan.subtasks[k].wtype \notin workers /\ "general" \in workers)
                   => via[k] = "general"
            /\ via[k] = "default" <=> workers = {}

\* C14 as the code has it: a subtask goes to the worker registered under its
\* worker_type, else to the registered general worker, and to the default
\* execution whenever neither is registered, whatever else is.
C14_DefaultWithoutMatch ==
    \A k \in DOMAIN via :
        /\ gpc[k] \in {"tools", "ret", "locked", "done"} => via[k] # "none"
        /\ via[k] # "none" =>
             /\ plan.subtasks[k].wtype \in workers => via[k] = plan.subtasks[k].wtype
             /\ (plan.subtasks[k].wtype \notin workers /\ "general" \in workers)
                    => via[k] = "general"
             /\ via[k] = "default" <=>
                  (plan.subtasks[k].wtype \notin workers /\ "general" \notin workers)
             /\ via[k] = "default" <=> res[k].id = plan.subtasks[k].id

\* Only the calculator worker is registered: the calculator subtask went to
\* it, the general and the writer subtasks to the default execution.
C14_Witness ==
    /\ workers = {"calculator"}
    /\ Len(plan.subtasks) = 3
    /\ via = <<"default", "calculator", "default">>

\* The tool executions Execute made, in order.
Executed == SelectSeq(effects, LAMBDA e : e.op = "Execute")

\* The names of the first n tool calls of the response that the worker's
\* registry holds, in the order of the response.
Held(n) ==
    SelectSeq(SubSeq(resp.toolCalls, 1, n), LAMBDA name : name \in worker.registry)

\* results holds a line per tool execution, in order: the tool's name with
\* its result, or with its error.
LinePerExecution ==
    /\ Len(wlines) = Len(Executed)
    /\ \A i \in 1..Len(wlines) :
         wlines[i] = [tool |-> Executed[i].name, ok |-> Executed[i].ok]

\* C15: Execute on a worker without llm makes no chat call and no tool call,
\* and returns (it does not panic) a result with Success false, the error
\* "LLM not configured for worker" and zero usage, whatever the worker's
\* tools, registry and input.
C15_NoLLM ==
    (wpc # "idle" /\ ~worker.llm) =>
        /\ effects = <<>>
        /\ wpc \in {"call", "returned"}
        /\ wpc = "call" => ENABLED ExecuteNoLLM
        /\ wpc = "returned" =>
             /\ wret.result.success = FALSE
             /\ wret.result.error = "LLM not configured for worker"
             /\ wret.result.output = EmptyString
             /\ wret.usage = ZeroUsage

\* Execute has returned on the calculator worker without llm whose registry
\* holds its tool.
C15_Witness ==
    /\ wpc = "returned"
    /\ ~worker.llm
    /\ worker.name = "calculator"
    /\ worker.hasRegistry
    /\ "calculator" \in worker.registry
    /\ winput = 1

\* C16 as claimed: the tool calls of the response are all executed, in the
\* order of the response, one after the other; a tool that returns an error
\* leaves an error line with its name and the later calls still run; the
\* result is a success whose output is the joined lines.
C16_AllCallsExecuted ==
    /\ wpc = "tools" =>
         /\ Len(Executed) = Min({pos - 1, Len(resp.toolCalls)})
         /\ \A i \in 1..Len(Executed) : Executed[i].name = resp.toolCalls[i]
         /\ LinePerExecution
    /\ (wpc = "returned" /\ resp.toolCalls # <<>>) =>
         /\ Len(Executed) = Len(resp.toolCalls)
         /\ \A i \in 1..Len(Executed) : Executed[i].name = resp.toolCalls[i]
         /\ LinePerExecution
         /\ wret.result = SubtaskResult(NoID, TRUE, ToolOutput(winput, wlines), "")

\* C16 as the code has it: the tool calls of the response whose tool the
\* registry holds are executed, in the order of the response, one after the
\* other, and the others are passed over without a line; a tool that returns
\* an error leaves an error line with its name and the later calls still run;
\* the result is a success whose output is the joined lines.
C16_HeldCallsExecuted ==
    /\ wpc = "tools" =>
         /\ [i \in 1..Len(Executed) |-> Executed[i].name]
                = Held(Min({pos - 1, Len(resp.toolCalls)}))
         /\ LinePerExecution
    /\ (wpc = "returned" /\ resp.toolCalls # <<>>) =>
         /\ [i \in 1..Len(Executed) |-> Executed[i].name] = Held(Len(resp.toolCalls))
         /\ LinePerExecution
         /\ wret.result = SubtaskResult(NoID, TRUE, ToolOutput(winput, wlines), "")
         /\ wret.usage = resp.usage
         /\ \E ok \in [1..Len(resp.toolCalls) -> BOOLEAN] :
                wlines = ToolLines(worker.registry, resp.toolCalls, ok)

\* Execute has returned after two tool calls of which the first returned an
\* error and the second a result.
C16_Witness ==
    /\ wpc = "returned"
    /\ resp.toolCalls = <<"web_search", "calculator">>
    /\ wret.result.success
    /\ wret.result.output.lines =
           <<[tool |-> "web_search", ok |-> FALSE], [tool |-> "calculator", ok |-> TRUE]>>

\* The level groupByLevel placed the subtask of goroutine k in.
LevelOfGoroutine(k) == LevelOf(levels, plan.subtasks[k].id)

\* C17: the steps of a returned Response are one planning step, then one step
\* per subtask of the plan (observation when its execution succeeded, error
\* when it failed, carrying the result of that execution), the steps of an
\* earlier level before those of a later level, then one synthesis step; its
\* usage is the planning usage plus the usage of every subtask execution plus
\* the synthesis usage.
C17_ResponseSteps ==
    (pc = "done" /\ ret.kind = "response") =>
        /\ Len(steps) = Len(plan.subtasks) + 2
        /\ steps[1].type = "planning"
        /\ steps[Len(steps)].type = "synthesis"
        /\ \A i \in 2..(Len(steps) - 1) : steps[i].type \in {"observation", "error"}
        /\ \A k \in 1..Len(plan.subtasks) :
             /\ Cardinality({i \in 1..Len(resultBy) : resultBy[i] = k}) = 1
             /\ \A i \in 1..Len(resultBy) :
                  resultBy[i] = k =>
                      steps[i + 1] = Step(IF res[k].success THEN "observation" ELSE "error",
                                          res[k].id, res[k].output)
        /\ \A i, j \in 1..Len(resultBy) :
             LevelOfGoroutine(resultBy[i]) < LevelOfGoroutine(resultBy[j]) => i < j
        /\ runUsage.prompt = calls.planUsage.prompt + calls.synthUsage.prompt
               + SumOver([k \in DOMAIN usage |-> usage[k].prompt], DOMAIN usage)
        /\ runUsage.completion = calls.planUsage.completion + calls.synthUsage.completion
               + SumOver([k \in DOMAIN usage |-> usage[k].completion], DOMAIN usage)
        /\ runUsage.total = calls.planUsage.total + calls.synthUsage.total
               + SumOver([k \in DOMAIN usage |-> usage[k].total], DOMAIN usage)

\* A response for a plan of two levels: the second subtask of the first level
\* recorded before the first, one subtask failed, and the usages differ.
C17_Witness ==
    /\ pc = "done" /\ ret.kind = "response"
    /\ Len(levels) = 2
    /\ resultBy = <<2, 1, 3>>
    /\ [i \in 1..Len(steps) |-> steps[i].type]
           = <<"planning", "observation", "error", "observation", "synthesis">>
    /\ calls.synthUsage # calls.planUsage

\* tree.levels[0], empty when the map has no such key.
Leaves == IF 0 \in DOMAIN tree.levels THEN tree.levels[0] ELSE <<>>

RECURSIVE Descendants(_)
\* The nodes reached from node a through children links, a included.
Descendants(a) ==
    IF a = NoNode THEN {}
    ELSE {a} \cup UNION {Descendants(heap[a].children[i]) :
                            i \in 1..Len(heap[a].children)}

\* C18: levels[0] holds exactly one leaf per document of the base store: the
\* same ids, no id twice, as many leaves as Count() reports.
C18_LeavesMatchBase ==
    /\ {heap[Leaves[i]].id : i \in 1..Len(Leaves)} = {LeafID(id) : id \in base}
    /\ \A i, j \in 1..Len(Leaves) : heap[Leaves[i]].id = heap[Leaves[j]].id => i = j
    /\ Len(Leaves) = Cardinality(base)

\* C19: after non-empty Adds whose summarizer and embedder calls succeeded,
\* every leaf of levels[0] is reached from root through children links, and
\* every node of a level above 0 was created by the last Add.
C19_BuildCoversAllLeaves ==
    (adds > 0 /\ ~degraded) =>
        /\ Range(Leaves) \subseteq Descendants(tree.root)
        /\ \A l \in DOMAIN tree.levels \ {0} :
             \A i \in 1..Len(tree.levels[l]) : heap[tree.levels[l][i]].born = adds

\* C20: every node with children has the level 1 + the largest level of its
\* children, every leaf has level 0, and every node of levels[k] has level k.
C20_NodeLevels ==
    /\ \A a \in 1..Len(heap) :
         IF heap[a].children = <<>>
         THEN heap[a].level = 0
         ELSE /\ \E i \in 1..Len(heap[a].children) :
                    heap[a].level = 1 + heap[heap[a].children[i]].level
              /\ \A i \in 1..Len(heap[a].children) :
                    heap[a].level >= 1 + heap[heap[a].children[i]].level
    /\ \A k \in DOMAIN tree.levels :
         \A i \in 1..Len(tree.levels[k]) : heap[tree.levels[k][i]].level = k

\* The last call was an Add of a non-empty batch that the base store took
\* and whose summarizer and embedder calls succeeded.
CleanAdd ==
    /\ lastCall.op = "Add"
    /\ lastCall.arg # <<>>
    /\ lastCall.ok
    /\ rret = "ok"

\* The top nodes the last build ended with: the nodes the last Add created
\* that no cluster node took as a child (the synthetic root aside).
TopNodes ==
    {a \in 1..Len(heap) :
        heap[a].born = adds /\ heap[a].parent = NoNode /\ heap[a].id # RootID}

\* C21: after an Add of a non-empty batch whose summarizer and embedder calls
\* succeeded, root is set: to the top node of the build when there is one, to
\* a new node without embedding whose children are exactly the top nodes
\* when there are several.
C21_RootDefined ==
    CleanAdd =>
        /\ tree.root # NoNode
        /\ TopNodes # {}
        /\ Cardinality(TopNodes) = 1 => tree.root \in TopNodes
        /\ Cardinality(TopNodes) > 1 =>
             /\ heap[tree.root].id = RootID
             /\ heap[tree.root].emb = NoEmbedding
             /\ heap[tree.root].born = adds
             /\ Range(heap[tree.root].children) = TopNodes
             /\ Len(heap[tree.root].children) = Cardinality(TopNodes)

\* An Add of three documents ended at MaxLevels with two cluster nodes, under
\* a new root.
C21_Witness ==
    /\ CleanAdd
    /\ Len(lastCall.arg) = 3
    /\ heap[tree.root].id = RootID
    /\ Len(heap[tree.root].children) = 2
    /\ \A i \in 1..2 : heap[heap[tree.root].children[i]].level = 1

\* The step is, or follows without another call on the store, a Delete.
Deleted == lastCall'.op = "Delete"

\* The step is a Clear.
Cleared == lastCall.op # "Clear" /\ lastCall'.op = "Clear"

\* The nodes of the levels of tree t.
NodesIn(t) == UNION {Range(t.levels[l]) : l \in DOMAIN t.levels}

\* C27: after Delete(ids), for every deleted id Get reports not-found, Count
\* does not count it and no level holds a node of that id; the documents and
\* nodes of other ids stay in the base store and in their levels, in order.
C27_DeleteRemoves ==
    [][Deleted =>
         LET ids == Range(lastCall'.arg)
         IN  /\ base' \cap ids = {}
             /\ Cardinality(base') = Cardinality(base \ ids)
             /\ \A a \in NodesIn(tree') : heap'[a].id \notin {LeafID(id) : id \in ids}
             /\ base' \ ids = base \ ids
             /\ DOMAIN tree'.levels = DOMAIN tree.levels
             /\ \A l \in DOMAIN tree.levels :
                  tree'.levels[l] =
                      SelectSeq(tree.levels[l],
                                LAMBDA a : \A id \in ids : heap[a].id # LeafID(id))]_vars

\* C27 witness: Delete has removed a document that had a leaf, and left
\* another document and its leaf.
C27_Witness ==
    /\ lastCall.op = "Delete"
    /\ \E a \in 1..Len(heap) :
         /\ heap[a].level = 0
         /\ heap[a].docs[1] \in Range(lastCall.arg)
         /\ a \notin NodesIn(tree)
    /\ base # {}
    /\ Leaves # <<>>

\* C28: Delete leaves the summary, embedding, children and documents of
\* every remaining node as they were, and root as it was.
C28_DeleteKeepsNodes ==
    [][Deleted =>
         /\ tree'.root = tree.root
         /\ \A a \in (NodesIn(tree') \cup {tree'.root}) \ {NoNode} :
              /\ heap'[a].summary = heap[a].summary
              /\ heap'[a].emb = heap[a].emb
              /\ heap'[a].children = heap[a].children
              /\ heap'[a].docs = heap[a].docs]_vars

\* C28 witness: after Delete, a node of level 1 still has the deleted leaf
\* among its children and the deleted document among its documents, and root
\* is set.
C28_Witness ==
    /\ lastCall.op = "Delete"
    /\ tree.root # NoNode
    /\ \E p \in NodesIn(tree) :
         /\ heap[p].level = 1
         /\ \E k \in 1..Len(heap[p].children) :
              /\ heap[p].children[k] \notin NodesIn(tree)
              /\ heap[heap[p].children[k]].docs[1] \in Range(lastCall.arg)
              /\ heap[heap[p].children[k]].docs[1] \in Range(heap[p].docs)

\* The tree holds the documents of the last Add, and nothing else.
FromBatchOnly ==
    /\ base = Range(lastCall.arg)
    /\ [k \in 1..Len(Leaves) |-> heap[Leaves[k]].id]
         = [k \in 1..Len(lastCall.arg) |-> LeafID(lastCall.arg[k])]
    /\ \A a \in (NodesIn(tree) \cup {tree.root}) \ {NoNode} :
         /\ Range(heap[a].docs) \subseteq Range(lastCall.arg)
         /\ Range(heap[a].children) \subseteq NodesIn(tree)

\* C29: after Clear the tree has no node at any level and no root and Count
\* is 0, and an Add that follows builds the tree from its batch only.
C29_ClearEmpties ==
    [][/\ Cleared =>
            /\ tree'.root = NoNode
            /\ NodesIn(tree') = {}
            /\ Cardinality(base') = 0
       /\ (lastCall.op = "Clear" /\ lastCall'.op = "Add" /\ rret' = "ok")
            => FromBatchOnly']_vars

\* C29 witness: Clear has emptied a store that held documents or nodes.
C29_Witness ==
    /\ lastCall.op = "Clear"
    /\ tree = NewTree
    /\ base = {}

-----------------------------------------------------------------------------
(* Properties of Search and SearchWithContext.                              *)

\* A Search call is about to return.
Searched == search.op = "Search"

\* The scores of the candidates of an id.
ScoresOf(id) ==
    {search.candidates[i].score :
        i \in {k \in 1..Len(search.candidates) : search.candidates[k].id = id}}

C23_AtMostLimit ==
    Searched => Len(search.results) <= search.limit

\* The results of the search in progress that carry the id of document d.
ResultsOf(d) ==
    {i \in 1..Len(search.results) : search.results[i].id = LeafID(d)}

\* Every leaf of levels[0] is a candidate.
LeavesAreCandidates ==
    \A k \in 1..Len(Leaves) :
        \E i \in 1..Len(search.candidates) : search.candidates[i].node = Leaves[k]

\* With a limit of at least the number of leaves, every stored document is
\* returned exactly once.
AllReturnedOnce ==
    search.limit >= Len(Leaves) =>
        \A d \in base : Cardinality(ResultsOf(d)) = 1

\* After an Add, a search with the embedding of an added document and a
\* limit of at least 1 returns the document with the highest score.
AddedIsBest ==
    (lastCall.op = "Add" /\ rret = "ok" /\ search.limit >= 1) =>
        \A k \in 1..Len(lastCall.arg) :
            search.query = DocEmbedding(lastCall.arg[k]) =>
                \E i \in ResultsOf(lastCall.arg[k]) :
                    \A j \in 1..Len(search.results) :
                        search.results[j].score <= search.results[i].score

\* C24: every leaf of levels[0] is a candidate of Search; with a limit of at
\* least the number of leaves every stored document is returned exactly
\* once; and a search for the embedding of a document just added, with a
\* limit of at least 1, returns it with the highest score.
C24_LeavesReturned ==
    Searched => LeavesAreCandidates /\ AllReturnedOnce /\ AddedIsBest

\* C25: the children of a non-leaf node are searched only when the node
\* scores strictly above the threshold, in the scan of a level and in the
\* descent alike: every node on the way to a candidate scores above it.
C25_DescentAboveThreshold ==
    Searched =>
        \A i \in 1..Len(search.candidates) :
            \A k \in 1..Len(search.candidates[i].path) :
                CosineSimilarity(search.query, heap[search.candidates[i].path[k]].emb)
                    > DefaultSimilarityThreshold

\* A SearchWithContext call whose query was embedded is about to return.
Contexted == search.op = "SearchWithContext" /\ search.err = ""

\* The result is a context result.
IsContext(r) == r.id[1] = "context"

\* The leaves of levels[0] that have a parent and the id of a result that
\* Search returned, score being 0.8 times the score of that result.
ParentedLeaves(score) ==
    {a \in Range(Leaves) :
        /\ heap[a].parent # NoNode
        /\ \E k \in 1..Len(search.candidates) :
             /\ search.candidates[k].id = heap[a].id
             /\ 10 * score = 8 * search.candidates[k].score}

-----------------------------------------------------------------------------
(* Properties of concurrent callers.                                        *)

\* A caller is reading the levels: in Search, or in findNode.
ReadsLevels ==
    \/ search # NoSearch
    \/ reader.pc = "lookup" /\ reader.k <= Len(reader.results)

\* C30: every read of the levels happens with the read lock held and every
\* mutation with the write lock held, so no read overlaps a write, no reader
\* finds new leaves whose upper levels are not built, and no race ends the
\* process.
C30_ReadsUnderLock ==
    /\ ReadsLevels => search # NoSearch
    /\ adding.locked => ~ReadsLevels
    /\ reader.pc = "lookup" => ~reader.torn
    /\ reader.pc # "crashed"

-----------------------------------------------------------------------------
(* Properties of clusterNodes.                                              *)

\* The nodes of the clusters before the k-th.
UsedBefore(cl, k) == UNION {Range(cl[j]) : j \in 1..(k - 1)}

\* Node a is like node b.
Alike(a, b) == CosineSimilarity(heap[a].emb, heap[b].emb) >= DefaultSimilarityThreshold

\* Three nodes that are like one another, and a node unlike each of them.
ThreeAndOne ==
    /\ Len(heap) = 4
    /\ \E d \in 1..4 :
         /\ \A a \in 1..4 \ {d} : ~Alike(a, d) /\ ~Alike(d, a)
         /\ \A a, b \in 1..4 \ {d} : Alike(a, b)

\* C31: clusterNodes returns the input as one cluster when it has at most
\* ClusterSize nodes; otherwise every node is in exactly one cluster, in
\* input order, a cluster has at most ClusterSize members, begins with the
\* first node not yet used, and its other members are like that seed; so
\* with ClusterSize 3, three alike nodes and one unlike them give two
\* clusters, of 3 and of 1.
C31_Partition ==
    clustered.called =>
        LET cl == clustered.clusters
            n  == Len(heap)
            cs == rconfig.clusterSize
        IN  /\ n <= cs => cl = <<[i \in 1..n |-> i]>>
            /\ n > cs =>
                 /\ UsedBefore(cl, Len(cl) + 1) = 1..n
                 /\ \A j, k \in 1..Len(cl) : j # k => Range(cl[j]) \cap Range(cl[k]) = {}
                 /\ \A k \in 1..Len(cl) :
                      /\ Len(cl[k]) >= 1
                      /\ Len(cl[k]) <= cs
                      /\ \A i, j \in 1..Len(cl[k]) : i < j => cl[k][i] < cl[k][j]
                      /\ cl[k][1] = Min(1..n \ UsedBefore(cl, k))
                      /\ \A i \in 2..Len(cl[k]) : Alike(cl[k][1], cl[k][i])
            /\ (cs = 3 /\ ThreeAndOne) =>
                 /\ Len(cl) = 2
                 /\ {Len(cl[1]), Len(cl[2])} = {1, 3}

\* C31 witness: ClusterSize 3, the unlike node second of four: the first
\* cluster passes over it and takes the two later nodes.
C31_Witness ==
    /\ clustered.called
    /\ rconfig.clusterSize = 3
    /\ ThreeAndOne
    /\ clustered.clusters = << <<1, 3, 4>>, <<2>> >>

-----------------------------------------------------------------------------
(* Properties of Add with a failing summarizer or embedder (SpecBuild).    *)

\* The clusters of the first round of the build over the leaves.
FirstClusters == clusterNodes(heap, Leaves, rconfig.clusterSize)

\* The build made a first round of parents.
FirstRound ==
    /\ rconfig.maxLevels >= 1
    /\ Len(Leaves) > 1
    /\ Len(FirstClusters) < Len(Leaves)

\* The nodes of level 1 whose children are the cluster.
ParentsOf(cluster) ==
    IF 1 \in DOMAIN tree.levels
    THEN {p \in Range(tree.levels[1]) : heap[p].children = cluster}
    ELSE {}

\* C32: an Add whose batch the base store takes returns no error whatever the
\* summarizer and the embedder do, and its leaves are stored; in the first
\* round a cluster whose summarization failed has its parent, with the
\* fallback summary, a cluster whose summary was not embedded has no parent,
\* and every other cluster of the round has its parent.
C32_FailuresTolerated ==
    (faults.called /\ ~BaseRejects(faults.docs)) =>
        /\ rret = "ok"
        /\ base = Range(faults.docs)
        /\ Len(Leaves) = Len(faults.docs)
        /\ FirstRound =>
              \A i \in 1..Len(FirstClusters) :
                  IF faults.out[i] = "embfail"
                  THEN /\ ParentsOf(FirstClusters[i]) = {}
                       /\ \A k \in 1..Len(FirstClusters[i]) :
                              heap[FirstClusters[i][k]].parent = NoNode
                  ELSE \E p \in ParentsOf(FirstClusters[i]) :
                          /\ ParentsOf(FirstClusters[i]) = {p}
                          /\ heap[p].id = ClusterID(1, i - 1)
                          /\ heap[p].summary =
                                 (IF faults.out[i] = "sumfail" THEN "fallback"
                                  ELSE "summary")
                          /\ \A k \in 1..Len(FirstClusters[i]) :
                                 heap[FirstClusters[i][k]].parent = p

\* An Add of three documents in two clusters: the summary of the first is not
\* embedded, the summarization of the second fails, and level 1 holds the
\* parent of the second alone, with the fallback summary.
C32_Witness ==
    /\ faults.called
    /\ rret = "ok"
    /\ FirstRound
    /\ Len(FirstClusters) = 2
    /\ faults.out[1] = "embfail"
    /\ faults.out[2] = "sumfail"
    /\ Len(tree.levels[1]) = 1
    /\ heap[tree.levels[1][1]].children = FirstClusters[2]
    /\ heap[tree.levels[1][1]].summary = "fallback"

-----------------------------------------------------------------------------
(* Termination of the run (SpecFair).                                      *)

\* RunWithHistory has returned.
Returned == pc = "done" /\ ret # NoReturn

\* C33: when every chat and tool call returns and every goroutine is
\* scheduled, RunWithHistory eventually returns.
C33_RunReturns == <>Returned

\* Every fair run returns or is stopped by the runtime.
ReturnsOrStops == <>(Returned \/ crashed)

-----------------------------------------------------------------------------
(* The shared result map (Spec).                                           *)

\* Goroutine k is about to read resultMap in buildTaskInput: it holds its
\* slot and its subtask has dependencies to look up.
ReadsMap(k) ==
    /\ gpc[k] = "acq"
    /\ Len(DepsOf(plan, plan.subtasks[k].id)) > 0

\* Goroutine j is between mu.Lock and mu.Unlock, where resultMap is written.
WritesMap(j) == gpc[j] = "locked"

\* C34: no goroutine reads resultMap while another goroutine writes it (here
\* over plans with unique ids, without cycle and without dangling ids).
C34_MapSerialized ==
    (pc = "exec" /\ UniqueIds(plan) /\ ~HasCycle(plan) /\ ~HasDangling(plan)) =>
        \A k \in DOMAIN gpc, j \in DOMAIN gpc :
            (k # j /\ ReadsMap(k)) => ~WritesMap(j)

-----------------------------------------------------------------------------
(* Termination of groupByLevel (SpecGroup).                                *)

\* An iteration of groupByLevel's loop.
Round == pc = "group" /\ pc' = "group" /\ levels' # levels

\* The iteration marks a subtask completed and the levels are no more than
\* the subtasks: the loop ends after at most that many iterations.
Progress ==
    /\ Cardinality(completed') > Cardinality(completed)
    /\ Len(levels') <= Len(plan.subtasks)

\* C35: groupByLevel terminates with finitely many levels for every plan the
\* planner's response may parse to: every iteration of its loop marks at
\* least one more subtask completed, so the loop condition fails after at
\* most as many iterations as there are subtasks.
C35_GroupTerminates == [][Round => Progress]_vars

\* The same for the plans with unique ids.
UniqueGroupProgress == [][(Round /\ UniqueIds(plan)) => Progress]_vars

\* groupByLevel returns.
GroupReturns == <>(pc = "exec")

\* groupByLevel returns for every plan with unique ids.
UniqueGroupTerminates == UniqueIds(plan) => <>(pc = "exec")

-----------------------------------------------------------------------------
(* The tools a worker executes (SpecWorker).                               *)

\* C36: every tool Execute runs is one of the worker's declared Tools.
C36_OnlyDeclaredTools ==
    \A i \in 1..Len(Executed) : Executed[i].name \in worker.tools

-----------------------------------------------------------------------------
(* Searches after Delete (SpecSearch).                                     *)

\* C37: a Search or SearchWithContext that follows Delete(ids), no Add or
\* Clear in between, returns no result with the id of a deleted document.
C37_DeletedNotReturned ==
    (search.op \in {"Search", "SearchWithContext"} /\ lastCall.op = "Delete") =>
        \A d \in Range(lastCall.arg) : ResultsOf(d) = {}

\* The same for SearchWithContext alone.
DeletedNotInContextSearch ==
    (search.op = "SearchWithContext" /\ lastCall.op = "Delete") =>
        \A d \in Range(lastCall.arg) : ResultsOf(d) = {}

-----------------------------------------------------------------------------
(* Add of a batch the base store rejects (SpecStore).                      *)

\* The step is an Add that returned the base store's error.
Rejected == adds' = adds + 1 /\ rret' = "base add failed"

\* C38: an Add that returns the base store's error leaves the store as it
\* was: the documents of the base store, the leaves, the other levels and
\* the root.
C38_RejectedAddChangesNothing ==
    [][Rejected => (base' = base /\ tree' = tree /\ heap' = heap)]_vars

\* Such an Add leaves the tree as it was.
RejectedAddKeepsTree == [][Rejected => (tree' = tree /\ heap' = heap)]_vars

-----------------------------------------------------------------------------
(* Parent back-references (SpecStore).                                     *)

\* C39: the Parent of every node of a level, when set, is a node of the level
\* directly above that has the node among its Children.
C39_ParentsInTree ==
    \A l \in DOMAIN tree.levels :
        \A a \in Range(tree.levels[l]) :
            heap[a].parent # NoNode =>
                /\ (l + 1) \in DOMAIN tree.levels
                /\ heap[a].parent \in Range(tree.levels[l + 1])
                /\ a \in Range(heap[heap[a].parent].children)

\* The same for a store that has seen one Add since it was new or cleared,
\* and any Deletes after it.
ParentsInTreeAfterOneAdd == adds <= 1 => C39_ParentsInTree

====
